---- MODULE Spec2Model ----
(***************************************************************************)
(* Soundromeda front end: the 2D k-d tree (utils/kdTree.ts), the hover     *)
(* hit-test and the scene logic (components/Scene.tsx), the audio player   *)
(* (useTone.ts), the global store (store/useAppStore.ts) and the upload    *)
(* panel (components/UploadPanel.tsx).                                     *)
(*                                                                         *)
(* JavaScript null is modelled by the empty tuple <<>> where the value is  *)
(* an object (a tree node, a point) and by the string "null" where the     *)
(* value is a string.                                                      *)
(***************************************************************************)
EXTENDS Integers, Sequences, FiniteSets, TLC

VARIABLES
    \* utils/kdTree.ts
    kdPoints,      \* the Point2D[] handed to the KDTree constructor
    kdRoot,        \* KDTree.root
    kdTarget,      \* the (x, y) of the last nearestNeighbor call
    kdResult,      \* what that call returned
    kdPc,          \* "new" -> "built" -> "queried"
    \* components/Scene.tsx, findClosestSoundPointToCursor called on its own
    htPoints,      \* the SoundPoint[] argument
    htMouse,       \* mouseNdc
    htResult,      \* the {id, name} returned
    htPc,          \* "call" -> "returned"
    \* useTone.ts
    tone,          \* activePlayer, playGeneration and every playAudioUrl call
    \* store/useAppStore.ts and components/Scene.tsx (useSceneLogic)
    scene,         \* the store's fields, the component's state, refs and effects
    \* components/UploadPanel.tsx
    panel,         \* the panel's state, the requests under way, the store's galaxyVersion
    \* components/Scene.tsx, fetchAllPoints called on its own
    fetchRun,      \* the two responses and the promise returned
    \* store/useAppStore.ts on its own, with the tooltips App renders from it
    store          \* the store's state

kdVars == <<kdPoints, kdRoot, kdTarget, kdResult, kdPc>>
htVars == <<htPoints, htMouse, htResult, htPc>>

vars == <<kdVars, htVars, tone, scene, panel, fetchRun, store>>

----------------------------------------------------------------------------
(* Bounds of the model. *)

MaxPoints == 3      \* longest point list
MaxCoord  == 2      \* coordinates are 0..MaxCoord
MaxHitPoints == 2   \* longest SoundPoint list of a hit-test
MaxNdc    == 4      \* projected coordinates are 0..MaxNdc (hundredths)
MaxMouse  == 1      \* the cursor is at (0..MaxMouse, 0) (hundredths)
MaxCalls  == 3      \* playAudioUrl calls in a run
MaxGeneration == 8  \* playGeneration stops growing here
MaxGalaxyVersion == 2   \* refreshGalaxy calls in a run
TickMs == 15        \* the clock advances in steps of TickMs
MaxSceneCalls == 2  \* playAudioUrl calls of the scene in a run
MaxTasks == 2       \* async functions of the upload panel under way at once
MaxRefreshes == 1   \* refreshGalaxy calls of the upload panel in a run

Coords == 0..MaxCoord

RECURSIVE SeqsUpTo(_, _)
SeqsUpTo(S, n) ==
    IF n = 0 THEN {<<>>}
    ELSE LET shorter == SeqsUpTo(S, n - 1)
         IN  shorter \cup {Append(s, e) : s \in {t \in shorter : Len(t) = n - 1}, e \in S}

Range(s) == {s[i] : i \in 1..Len(s)}

----------------------------------------------------------------------------
(* Each specification below runs one part of the program; the variables of *)
(* the parts it leaves out stay at these values.                           *)

KDIdle ==
    /\ kdPoints = <<>>
    /\ kdRoot = <<>>
    /\ kdTarget = <<>>
    /\ kdResult = <<>>
    /\ kdPc = "idle"

HTIdle ==
    /\ htPoints = <<>>
    /\ htMouse = [x |-> 0, y |-> 0]
    /\ htResult = [id |-> "null", name |-> "null"]
    /\ htPc = "idle"

ToneIdle ==
    tone = [activePlayer |-> 0, playGeneration |-> 0, calls |-> <<>>]

SceneIdle == scene = <<>>

PanelIdle == panel = <<>>

FetchRunIdle == fetchRun = <<>>

StoreIdle == store = <<>>

----------------------------------------------------------------------------
(* components/Scene.tsx: the hit-test *)

\* Normalized device coordinates are counted in hundredths: 0.04 is 4.
HOVER_NDC_RADIUS == 4

\* A JavaScript string or number, kept with its type; String(v) is its text.
JsString(text) == [type |-> "string", repr |-> text]
JsNumber(text) == [type |-> "number", repr |-> text]
String(v) == v.repr

\* a ?? null, for a that is a string, "undefined" or "null"
OrNull(a) == IF a \in {"undefined", "null"} THEN "null" ELSE a

\* SoundPoint.coords_3d is optional: <<>> when absent.
getSoundPointPosition3D(soundPoint) ==
    IF soundPoint.coords_3d # <<>> /\ Len(soundPoint.coords_3d) = 3
    THEN <<soundPoint.coords_3d[1], soundPoint.coords_3d[2], soundPoint.coords_3d[3]>>
    ELSE <<soundPoint.coords_2d[1], soundPoint.coords_2d[2], 0>>

\* worldPosition.set(x, y, z).applyMatrix4(matrixWorld) and .project(camera)
\* are three.js: the points object is never moved (matrixWorld is the
\* identity) and the view modelled looks down the z axis, one world unit to
\* one hundredth of the device range.
ProjectToNdc(pos) == [x |-> pos[1], y |-> pos[2]]

ProjectedDistSq(point, mouseNdc) ==
    LET ndc == ProjectToNdc(getSoundPointPosition3D(point))
        dx  == ndc.x - mouseNdc.x
        dy  == ndc.y - mouseNdc.y
    IN  dx * dx + dy * dy

\* A slip: <= keeps the last of several closest points and lets a point at
\* exactly the radius through.
RECURSIVE ScanPointsLastWins(_, _, _, _)
ScanPointsLastWins(points, mouseNdc, i, best) ==
    IF i > Len(points) THEN best
    ELSE LET point  == points[i]
             distSq == ProjectedDistSq(point, mouseNdc)
         IN  ScanPointsLastWins(points, mouseNdc, i + 1,
                 IF distSq <= best.distSq
                 THEN [id |-> String(point.id), name |-> OrNull(point.name),
                       distSq |-> distSq]
                 ELSE best)

\* the for loop, from index i on (1-based), with bestId, bestName, bestDistSq
RECURSIVE ScanPoints(_, _, _, _)
ScanPoints(points, mouseNdc, i, best) ==
    IF i > Len(points) THEN best
    ELSE LET point  == points[i]
             distSq == ProjectedDistSq(point, mouseNdc)
         IN  ScanPoints(points, mouseNdc, i + 1,
                 IF distSq < best.distSq
                 THEN [id |-> String(point.id), name |-> OrNull(point.name),
                       distSq |-> distSq]
                 ELSE best)

findClosestSoundPointToCursor(points, mouseNdc) ==
    LET best == ScanPoints(points, mouseNdc, 1,
                    [id |-> "null", name |-> "null",
                     distSq |-> HOVER_NDC_RADIUS * HOVER_NDC_RADIUS])
    IN  [id |-> best.id, name |-> best.name]

\* The i-th point of a list: odd ids are numbers and even ids strings; the
\* second point has no name; a point either has coords_2d only or carries
\* coords_3d (with z = 1) beside an unrelated coords_2d.
SoundPointAt(i, pos, with3d) ==
    [id        |-> IF i % 2 = 1 THEN JsNumber(ToString(i)) ELSE JsString(ToString(i)),
     name      |-> IF i = 2 THEN "undefined" ELSE "sound" \o ToString(i),
     audioUrl  |-> "/audio/" \o ToString(i),
     coords_2d |-> IF with3d THEN <<0, 0>> ELSE pos,
     coords_3d |-> IF with3d THEN <<pos[1], pos[2], 1>> ELSE <<>>]

NdcCoords == 0..MaxNdc

SoundPointLists ==
    {[i \in 1..Len(ps) |-> SoundPointAt(i, ps[i][1], ps[i][2])] :
        ps \in SeqsUpTo((NdcCoords \X NdcCoords) \X BOOLEAN, MaxHitPoints)}

HTInit ==
    /\ SceneIdle
    /\ PanelIdle
    /\ FetchRunIdle
    /\ StoreIdle
    /\ KDIdle
    /\ ToneIdle
    /\ htPoints \in SoundPointLists
    /\ htMouse \in {[x |-> mx, y |-> 0] : mx \in 0..MaxMouse}
    /\ htResult = [id |-> "null", name |-> "null"]
    /\ htPc = "call"

HitTest ==
    /\ htPc = "call"
    /\ htResult' = findClosestSoundPointToCursor(htPoints, htMouse)
    /\ htPc' = "returned"
    /\ UNCHANGED <<htPoints, htMouse, kdVars, tone, scene, panel, fetchRun, store>>

HTNext == HitTest

SpecHit == HTInit /\ [][HTNext]_vars

----------------------------------------------------------------------------
(* useTone.ts *)

(* tone.activePlayer is the index in tone.calls of the call whose player   *)
(* it is, 0 for null.  A call is                                           *)
(*   "noplayer"  playAudioUrl got an empty audioUrl and made no player     *)
(*   "starting"  waiting for Tone.start() to resolve                       *)
(*   "loading"   new Tone.Player(audioUrl, ...) is loading its buffer      *)
(*   "skipped"   the load callback returned at myGen !== playGeneration    *)
(*   "started"   player.start() was called and the player sounds           *)
(*   "stopped"   stop() called player.stop() and player.dispose()          *)
(*   "ended"     the player ended, its onstop handler disposed it          *)
(* stopCalled: the function this call returned has been called; onEnded:   *)
(* the onEnded argument has been called; owner: who called.                *)

\* A slip: stop() without playGeneration++, so a load under way is not
\* told that it was stopped.
stopKeepsGeneration(t) ==
    IF t.activePlayer # 0
    THEN [t EXCEPT !.calls[t.activePlayer].state = "stopped", !.activePlayer = 0]
    ELSE t

\* const stop = () => { ... }
stop(t) ==
    LET bumped == [t EXCEPT !.playGeneration = @ + 1]
    IN  IF t.activePlayer # 0
        THEN [bumped EXCEPT !.calls[t.activePlayer].state = "stopped",
                            !.activePlayer = 0]
        ELSE bumped

\* playAudioUrl(audioUrl, onEnded) up to its return; the stop function it
\* returns is named by the index of the new call.
playAudioUrl(t, audioUrl, owner) ==
    IF audioUrl = ""
    THEN [t EXCEPT !.calls = Append(@, [audioUrl |-> audioUrl, myGen |-> 0,
                                        state |-> "noplayer", stopCalled |-> FALSE,
                                        onEnded |-> TRUE, owner |-> owner])]
    ELSE LET stopped == stop(t)
             myGen   == stopped.playGeneration + 1
         IN  [stopped EXCEPT
                 !.playGeneration = myGen,
                 !.calls = Append(@, [audioUrl |-> audioUrl, myGen |-> myGen,
                                      state |-> "starting", stopCalled |-> FALSE,
                                      onEnded |-> FALSE, owner |-> owner])]

\* Tone.start().then(() => { const player = new Tone.Player(audioUrl, ...) })
toneStartResolved(t, c) == [t EXCEPT !.calls[c].state = "loading"]

\* A slip: the load callback without its generation check.
playerLoadedUnchecked(t, c) ==
    [t EXCEPT !.activePlayer = c, !.calls[c].state = "started"]

\* the Player's load callback
playerLoaded(t, c) ==
    IF t.calls[c].myGen # t.playGeneration
    THEN [t EXCEPT !.calls[c].state = "skipped"]
    ELSE [t EXCEPT !.activePlayer = c, !.calls[c].state = "started"]

\* player.onstop
playerOnStop(t, c) ==
    [t EXCEPT !.activePlayer = 0, !.calls[c].state = "ended", !.calls[c].onEnded = TRUE]

\* the function returned by call c is called
stopReturnedBy(t, c) == [stop(t) EXCEPT !.calls[c].stopCalled = TRUE]

AudioUrls == {"", "/audio/1", "/audio/2"}

Calls == 1..Len(tone.calls)

Sounding(t) == {c \in 1..Len(t.calls) : t.calls[c].state = "started"}

ToneInit ==
    /\ SceneIdle
    /\ PanelIdle
    /\ FetchRunIdle
    /\ StoreIdle
    /\ KDIdle
    /\ HTIdle
    /\ ToneIdle

PlayAudioUrl(audioUrl) ==
    /\ Len(tone.calls) < MaxCalls
    /\ tone' = playAudioUrl(tone, audioUrl, "caller")
    /\ UNCHANGED <<kdVars, htVars, scene, panel, fetchRun, store>>

CallStop(c) ==
    /\ tone.playGeneration < MaxGeneration
    /\ tone' = stopReturnedBy(tone, c)
    /\ UNCHANGED <<kdVars, htVars, scene, panel, fetchRun, store>>

ToneStartResolved(c) ==
    /\ tone.calls[c].state = "starting"
    /\ tone' = toneStartResolved(tone, c)
    /\ UNCHANGED <<kdVars, htVars, scene, panel, fetchRun, store>>

PlayerLoaded(c) ==
    /\ tone.calls[c].state = "loading"
    /\ tone' = playerLoaded(tone, c)
    /\ UNCHANGED <<kdVars, htVars, scene, panel, fetchRun, store>>

\* Tone.js calls onstop when a started player's source ends; a disposed
\* player calls nothing.
PlayerOnStop(c) ==
    /\ tone.calls[c].state = "started"
    /\ tone' = playerOnStop(tone, c)
    /\ UNCHANGED <<kdVars, htVars, scene, panel, fetchRun, store>>

ToneNext ==
    \/ \E audioUrl \in AudioUrls : PlayAudioUrl(audioUrl)
    \/ \E c \in Calls : CallStop(c)
    \/ \E c \in Calls : ToneStartResolved(c)
    \/ \E c \in Calls : PlayerLoaded(c)
    \/ \E c \in Calls : PlayerOnStop(c)

SpecTone == ToneInit /\ [][ToneNext]_vars

----------------------------------------------------------------------------
(* components/Scene.tsx: fetchAllPoints *)

\* What a fetch of /api/sounds?source=... can produce: a rejected promise,
\* a response that is not ok, an ok response whose body is not JSON, an ok
\* response without a points array, an ok response with points.
HttpReject == [kind |-> "reject"]
HttpNotOk == [kind |-> "notok"]
HttpBadJson == [kind |-> "badjson"]
HttpNoPoints == [kind |-> "nopoints"]
HttpPoints(points) == [kind |-> "points", points |-> points]

Throws(res) == res.kind \in {"reject", "badjson"}

\* A settled promise.
Fulfilled(value) == [status |-> "fulfilled", value |-> value]
Rejected == [status |-> "rejected"]

\* fetch(url), settled: the Response, or a rejection
fetch(res) == IF res.kind = "reject" THEN Rejected ELSE Fulfilled(res)

\* Promise.all([a, b]), settled
PromiseAll(a, b) ==
    IF a.status = "rejected" \/ b.status = "rejected" THEN Rejected
    ELSE Fulfilled(<<a.value, b.value>>)

\* res.text().catch(() => '') cannot reject; res.json() rejects on a body
\* that is not JSON
parsePointsResponse(res) ==
    IF res.kind = "notok" THEN Fulfilled(<<>>)
    ELSE IF res.kind = "badjson" THEN Rejected
    ELSE IF res.kind = "points" THEN Fulfilled(res.points)
    ELSE Fulfilled(<<>>)

\* A slip: fetchAllPoints without its try and catch.
fetchAllPointsUncaught(builtinResponse, userResponse) ==
    LET responses == PromiseAll(fetch(builtinResponse), fetch(userResponse))
    IN  IF responses.status = "rejected" THEN Rejected
        ELSE LET parsed == PromiseAll(parsePointsResponse(responses.value[1]),
                                      parsePointsResponse(responses.value[2]))
             IN  IF parsed.status = "rejected" THEN Rejected
                 ELSE Fulfilled([builtin |-> parsed.value[1], user |-> parsed.value[2],
                                 all |-> parsed.value[1] \o parsed.value[2]])

\* the promise fetchAllPoints() returns, settled
fetchAllPoints(builtinResponse, userResponse) ==
    LET caught    == Fulfilled([builtin |-> <<>>, user |-> <<>>, all |-> <<>>])
        responses == PromiseAll(fetch(builtinResponse), fetch(userResponse))
    IN  IF responses.status = "rejected" THEN caught
        ELSE LET parsed == PromiseAll(parsePointsResponse(responses.value[1]),
                                      parsePointsResponse(responses.value[2]))
             IN  IF parsed.status = "rejected" THEN caught
                 ELSE Fulfilled([builtin |-> parsed.value[1], user |-> parsed.value[2],
                                 all |-> parsed.value[1] \o parsed.value[2]])

\* fetchAllPoints called on its own, for every pair of responses: lists of
\* none, one and two points among them.
PointsPoint(i) == SoundPointAt(i, <<i, 0>>, FALSE)

PointsResponses ==
    {HttpPoints(points) : points \in {<<>>, <<PointsPoint(1)>>, <<PointsPoint(2)>>,
                                      <<PointsPoint(1), PointsPoint(2)>>}}
        \cup {HttpNotOk, HttpReject, HttpBadJson, HttpNoPoints}

PointsInit ==
    /\ KDIdle
    /\ HTIdle
    /\ ToneIdle
    /\ SceneIdle
    /\ PanelIdle
    /\ StoreIdle
    /\ fetchRun \in [builtinResponse : PointsResponses, userResponse : PointsResponses,
                     pc : {"call"}, promise : {<<>>}]

FetchAllPoints ==
    /\ fetchRun.pc = "call"
    /\ fetchRun' = [fetchRun EXCEPT
                       !.pc = "settled",
                       !.promise = fetchAllPoints(fetchRun.builtinResponse,
                                                  fetchRun.userResponse)]
    /\ UNCHANGED <<kdVars, htVars, tone, scene, panel, store>>

PointsNext == FetchAllPoints

SpecPoints == PointsInit /\ [][PointsNext]_vars

----------------------------------------------------------------------------
(* store/useAppStore.ts and components/Scene.tsx: useSceneLogic *)

HOVER_PLAY_DELAY_MS == 30

\* The galaxy the server holds: a built-in sound and a user sound whose
\* audioUrl is empty, a radius and a bit apart on the x axis.
PlaceStep == HOVER_NDC_RADIUS + 1

ScenePoint(i) ==
    [SoundPointAt(i, <<PlaceStep * (i - 1), 0>>, FALSE)
        EXCEPT !.audioUrl = IF i = 2 THEN "" ELSE @]

BuiltinGalaxy == <<ScenePoint(1)>>
UserGalaxy == <<ScenePoint(2)>>

BuiltinResponses ==
    {HttpPoints(BuiltinGalaxy), HttpNotOk, HttpReject, HttpBadJson, HttpNoPoints}
UserResponses ==
    {HttpPoints(UserGalaxy), HttpNotOk, HttpReject, HttpBadJson, HttpNoPoints}

\* The cursor over the scene is on one of the galaxy's points (place k is on
\* point k + 1) or, at the last place, on none.
MousePlace(k) == [x |-> PlaceStep * k, y |-> 0]
MousePlaces == 0..Len(BuiltinGalaxy \o UserGalaxy)

Min(S) == CHOOSE m \in S : \A n \in S : m <= n

\* points.find((p) => String(p.id) === String(id)), <<>> for undefined
FindPoint(points, id) ==
    LET found == {i \in 1..Len(points) : String(points[i].id) = id}
    IN  IF found = {} THEN <<>> ELSE <<points[Min(found)]>>

\* The state after the first render and its effects: the fetch effect has
\* started the request for galaxyVersion 0, the click and hover effects
\* returned at points.length === 0.
SceneStart ==
    [selectedId |-> "null", playingId |-> "null",
     hoveredId |-> "null", hoveredName |-> "null",
     pointerX |-> <<>>, pointerY |-> <<>>,
     playMode |-> "hover", galaxyVersion |-> 0,
     mounted |-> TRUE,
     points |-> <<>>, builtinPoints |-> <<>>, userPoints |-> <<>>,
     pointsFetch |-> 0,          \* the fetch whose result points holds
     mouse |-> [x |-> 0, y |-> 0],
     isPointerOverScene |-> FALSE,
     fetches |-> <<[galaxyVersion |-> 0, cancelled |-> FALSE, settled |-> FALSE]>>,
     clickStop |-> 0,            \* the call whose stop the click effect's cleanup calls
     hoverCleanup |-> FALSE,     \* the hover effect returned a cleanup
     timer |-> <<>>,             \* the pending window.setTimeout of the hover effect
     hoverPlayStopRef |-> 0,     \* the call whose stop hoverPlayStopRef.current is
     hoverElapsed |-> 0,         \* ms since hoveredId last changed, up to the delay
     lastEvent |-> "other"]      \* "pointerDown", "pointerLeave", "frame" right
                                 \* after handlePointerDown, handlePointerLeave
                                 \* and the useFrame callback

World == [sc |-> scene, tone |-> tone]

\* A slip: the fetch effect without its cleanup, cancelled is never set.
fetchEffectCleanupForgets(w) == w

\* useEffect(..., [galaxyVersion])
fetchEffectCleanup(w) ==
    [w EXCEPT !.sc.fetches[Len(w.sc.fetches)].cancelled = TRUE]

fetchEffectSetup(w) ==
    [w EXCEPT !.sc.fetches = Append(@, [galaxyVersion |-> w.sc.galaxyVersion,
                                        cancelled |-> FALSE, settled |-> FALSE])]

\* useEffect(..., [playMode, selectedId, points, setPlayingId])
clickEffectCleanup(w) ==
    IF w.sc.clickStop = 0 THEN w
    ELSE [w EXCEPT !.tone = stopReturnedBy(@, w.sc.clickStop),
                   !.sc.playingId = "null",
                   !.sc.clickStop = 0]

clickEffectSetup(w) ==
    IF w.sc.playMode # "click" \/ w.sc.selectedId = "null" \/ Len(w.sc.points) = 0
    THEN w
    ELSE LET point == FindPoint(w.sc.points, w.sc.selectedId)
         IN  IF point = <<>> \/ point[1].audioUrl = ""
             THEN [w EXCEPT !.sc.playingId = "null"]
             ELSE LET played == playAudioUrl(w.tone, point[1].audioUrl, "click")
                  IN  [w EXCEPT !.sc.playingId = w.sc.selectedId,
                                !.tone = played,
                                !.sc.clickStop = Len(played.calls)]

\* A slip: the hover effect's cleanup without window.clearTimeout.
hoverEffectCleanupKeepsTimer(w) ==
    IF ~w.sc.hoverCleanup THEN w
    ELSE [w EXCEPT !.tone = IF w.sc.hoverPlayStopRef # 0
                            THEN stopReturnedBy(@, w.sc.hoverPlayStopRef) ELSE @,
                   !.sc.hoverPlayStopRef = 0,
                   !.sc.playingId = "null",
                   !.sc.hoverCleanup = FALSE]

\* useEffect(..., [playMode, hoveredId, points, setPlayingId])
hoverEffectCleanup(w) ==
    IF ~w.sc.hoverCleanup THEN w
    ELSE [w EXCEPT !.sc.timer = <<>>,
                   !.tone = IF w.sc.hoverPlayStopRef # 0
                            THEN stopReturnedBy(@, w.sc.hoverPlayStopRef) ELSE @,
                   !.sc.hoverPlayStopRef = 0,
                   !.sc.playingId = "null",
                   !.sc.hoverCleanup = FALSE]

hoverEffectSetup(w) ==
    IF w.sc.playMode # "hover" \/ w.sc.hoveredId = "null" \/ Len(w.sc.points) = 0
    THEN w
    ELSE LET point == FindPoint(w.sc.points, w.sc.hoveredId)
         IN  IF point = <<>> \/ point[1].audioUrl = ""
             THEN w
             ELSE [w EXCEPT !.sc.timer = <<[hoveredId |-> w.sc.hoveredId,
                                            audioUrl |-> point[1].audioUrl,
                                            remaining |-> HOVER_PLAY_DELAY_MS]>>,
                            !.sc.hoverCleanup = TRUE]

\* the timeout's callback
hoverTimeout(w) ==
    LET played == playAudioUrl(w.tone, w.sc.timer[1].audioUrl, "hover")
    IN  [w EXCEPT !.sc.playingId = w.sc.timer[1].hoveredId,
                  !.tone = played,
                  !.sc.hoverPlayStopRef = Len(played.calls),
                  !.sc.timer = <<>>]

\* React after a render: the cleanups of the effects whose dependencies
\* changed, in the order the effects are declared, then their bodies.
RunEffects(old, new) ==
    LET fetchDep  == old.sc.galaxyVersion # new.sc.galaxyVersion
        pointsDep == old.sc.pointsFetch # new.sc.pointsFetch
        clickDep  == \/ old.sc.playMode # new.sc.playMode
                     \/ old.sc.selectedId # new.sc.selectedId
                     \/ pointsDep
        hoverDep  == \/ old.sc.playMode # new.sc.playMode
                     \/ old.sc.hoveredId # new.sc.hoveredId
                     \/ pointsDep
        c1 == IF fetchDep THEN fetchEffectCleanup(new) ELSE new
        c2 == IF clickDep THEN clickEffectCleanup(c1) ELSE c1
        c3 == IF hoverDep THEN hoverEffectCleanup(c2) ELSE c2
        s1 == IF fetchDep THEN fetchEffectSetup(c3) ELSE c3
        s2 == IF clickDep THEN clickEffectSetup(s1) ELSE s1
    IN  IF hoverDep THEN hoverEffectSetup(s2) ELSE s2

\* the component is removed: every effect's cleanup runs
unmount(w) ==
    [hoverEffectCleanup(clickEffectCleanup(fetchEffectCleanup(w)))
        EXCEPT !.sc.mounted = FALSE]

\* the .then of the fetch effect, for fetch r and what fetchAllPoints gave
fetchThen(w, r, got) ==
    IF w.sc.fetches[r].cancelled
    THEN [w EXCEPT !.sc.fetches[r].settled = TRUE]
    ELSE [w EXCEPT !.sc.fetches[r].settled = TRUE,
                   !.sc.builtinPoints = got.builtin,
                   !.sc.userPoints = got.user,
                   !.sc.points = got.all,
                   !.sc.pointsFetch = r]

\* useFrame(() => { ... })
useFrame(w) ==
    IF ~w.sc.isPointerOverScene
    THEN [w EXCEPT !.sc.hoveredId = "null", !.sc.hoveredName = "null",
                   !.sc.pointerX = <<>>, !.sc.pointerY = <<>>]
    ELSE IF Len(w.sc.points) = 0 THEN w
    ELSE LET best == findClosestSoundPointToCursor(w.sc.points, w.sc.mouse)
         IN  [w EXCEPT !.sc.hoveredId = best.id, !.sc.hoveredName = best.name]

handlePointerMove(w, k) ==
    [w EXCEPT !.sc.mouse = MousePlace(k), !.sc.pointerX = <<k>>, !.sc.pointerY = <<0>>]

handlePointerEnter(w) == [w EXCEPT !.sc.isPointerOverScene = TRUE]

\* A slip: handlePointerLeave without setHoveredName(null).
handlePointerLeaveKeepsName(w) ==
    [w EXCEPT !.sc.isPointerOverScene = FALSE,
              !.sc.hoveredId = "null",
              !.sc.pointerX = <<>>, !.sc.pointerY = <<>>]

handlePointerLeave(w) ==
    [w EXCEPT !.sc.isPointerOverScene = FALSE,
              !.sc.hoveredId = "null", !.sc.hoveredName = "null",
              !.sc.pointerX = <<>>, !.sc.pointerY = <<>>]

handlePointerDown(w) ==
    IF w.sc.playMode = "click" /\ w.sc.hoveredId # "null"
    THEN [w EXCEPT !.sc.selectedId = w.sc.hoveredId]
    ELSE w

setPlayMode(w, mode) == [w EXCEPT !.sc.playMode = mode]

refreshGalaxy(w) == [w EXCEPT !.sc.galaxyVersion = @ + 1]

\* player.onstop of a player the scene started: onEnded is
\* () => setPlayingId(null)
sceneOnStop(w, c) ==
    [w EXCEPT !.tone = playerOnStop(@, c), !.sc.playingId = "null"]

\* The events scene.lastEvent tells apart.
SceneEvents == {"pointerDown", "pointerLeave", "frame"}

\* The step to the world next: playGeneration and the number of calls stay
\* within the bounds.
Step(next, event) ==
    /\ next.tone.playGeneration <= MaxGeneration
    /\ Len(next.tone.calls) <= MaxSceneCalls
    /\ tone' = next.tone
    /\ scene' = [next.sc EXCEPT
                    !.lastEvent = IF event \in SceneEvents THEN event ELSE "other",
                    !.hoverElapsed = IF next.sc.hoveredId # scene.hoveredId THEN 0 ELSE @]
    /\ UNCHANGED <<kdVars, htVars, panel, fetchRun, store>>

Render(next, event) == Step(RunEffects(World, next), event)

\* the hit plane is rendered only when there are points
HitPlaneShown == scene.mounted /\ Len(scene.points) > 0

SceneInit ==
    /\ PanelIdle
    /\ FetchRunIdle
    /\ StoreIdle
    /\ KDIdle
    /\ HTIdle
    /\ ToneIdle
    /\ scene = SceneStart

Frame ==
    /\ scene.mounted
    /\ Render(useFrame(World), "frame")

PointerEnter ==
    /\ HitPlaneShown
    /\ ~scene.isPointerOverScene
    /\ Render(handlePointerEnter(World), "pointerEnter")

PointerMove(k) ==
    /\ HitPlaneShown
    /\ scene.isPointerOverScene
    /\ Render(handlePointerMove(World, k), "pointerMove")

PointerLeave ==
    /\ HitPlaneShown
    /\ scene.isPointerOverScene
    /\ Render(handlePointerLeave(World), "pointerLeave")

PointerDown ==
    /\ HitPlaneShown
    /\ scene.isPointerOverScene
    /\ Render(handlePointerDown(World), "pointerDown")

SetPlayMode(mode) ==
    /\ scene.mounted
    /\ Render(setPlayMode(World, mode), "setPlayMode")

RefreshGalaxy ==
    /\ scene.mounted
    /\ scene.galaxyVersion < MaxGalaxyVersion
    /\ Render(refreshGalaxy(World), "refreshGalaxy")

\* the effect has a .then and no .catch
FetchSettled(r, builtinResponse, userResponse) ==
    /\ ~scene.fetches[r].settled
    /\ fetchAllPoints(builtinResponse, userResponse).status = "fulfilled"
    /\ Render(fetchThen(World, r, fetchAllPoints(builtinResponse, userResponse).value),
              "fetchSettled")

\* TickMs of time pass
Tick ==
    /\ scene.mounted
    /\ \/ scene.hoverElapsed < HOVER_PLAY_DELAY_MS
       \/ scene.timer # <<>> /\ scene.timer[1].remaining > 0
    /\ LET later(ms) == IF ms > TickMs THEN ms - TickMs ELSE 0
           sooner(ms) == IF ms + TickMs < HOVER_PLAY_DELAY_MS
                         THEN ms + TickMs ELSE HOVER_PLAY_DELAY_MS
       IN  Step([World EXCEPT
                    !.sc.timer = IF @ = <<>> THEN @
                                 ELSE <<[@[1] EXCEPT !.remaining = later(@)]>>,
                    !.sc.hoverElapsed = sooner(@)], "tick")

\* a timeout runs no earlier than its delay
HoverTimeout ==
    /\ scene.timer # <<>>
    /\ scene.timer[1].remaining = 0
    /\ Render(hoverTimeout(World), "hoverTimeout")

SceneToneStartResolved(c) ==
    /\ tone.calls[c].state = "starting"
    /\ Step([World EXCEPT !.tone = toneStartResolved(@, c)], "toneStartResolved")

ScenePlayerLoaded(c) ==
    /\ tone.calls[c].state = "loading"
    /\ Step([World EXCEPT !.tone = playerLoaded(@, c)], "playerLoaded")

ScenePlayerOnStop(c) ==
    /\ tone.calls[c].state = "started"
    /\ Step(sceneOnStop(World, c), "playerOnStop")

Unmount ==
    /\ scene.mounted
    /\ Step(unmount(World), "unmount")

SceneNext ==
    \/ Frame
    \/ PointerEnter
    \/ \E k \in MousePlaces : PointerMove(k)
    \/ PointerLeave
    \/ PointerDown
    \/ \E mode \in {"hover", "click"} : SetPlayMode(mode)
    \/ \E r \in 1..Len(scene.fetches) :
          FetchSettled(r, HttpPoints(BuiltinGalaxy), HttpPoints(UserGalaxy))
    \/ Tick
    \/ HoverTimeout
    \/ \E c \in Calls : SceneToneStartResolved(c)
    \/ \E c \in Calls : ScenePlayerLoaded(c)
    \/ \E c \in Calls : ScenePlayerOnStop(c)

\* Hovering, clicking and playback on the galaxy once it is loaded.
SpecScene == SceneInit /\ [][SceneNext]_vars

\* The galaxy fetch on its own: versions, responses in any order, unmount.
FetchNext ==
    \/ RefreshGalaxy
    \/ \E r \in 1..Len(scene.fetches), b \in BuiltinResponses, u \in UserResponses :
          FetchSettled(r, b, u)
    \/ Unmount

SpecFetch == SceneInit /\ [][FetchNext]_vars

----------------------------------------------------------------------------
(* store/useAppStore.ts on its own, and the tooltips of App                *)

(* The file holds two revisions of the store: the later one has playMode,  *)
(* volume and highlightedListAudioUrl and their setters, the earlier one   *)
(* has not.  store.state is the state object of the store, store.last the  *)
(* function of the store called last and its arguments.  A number that may *)
(* be null is <<>> or <<n>>; volume is in tenths.                          *)

StoreRevisions == {"useAppStore.ts:71", "useAppStore.ts:23"}

\* create<AppState>((set) => ({ ... })): the initial state
StoreState(revision) ==
    IF revision = "useAppStore.ts:71"
    THEN [selectedId |-> "null", playingId |-> "null",
          hoveredId |-> "null", hoveredName |-> "null",
          pointerX |-> <<>>, pointerY |-> <<>>,
          hoverTooltipMode |-> "follow", playMode |-> "hover",
          volume |-> 10, galaxyVersion |-> 0,
          highlightedListAudioUrl |-> "null"]
    ELSE [selectedId |-> "null", playingId |-> "null",
          hoveredId |-> "null", hoveredName |-> "null",
          pointerX |-> <<>>, pointerY |-> <<>>,
          hoverTooltipMode |-> "follow", galaxyVersion |-> 0]

\* the functions of the store
StoreFunctions(revision) ==
    {"setSelectedId", "setPlayingId", "setHoveredId", "setHoveredName",
     "setPointerPosition", "setHoverTooltipMode", "refreshGalaxy"}
        \cup (IF revision = "useAppStore.ts:71"
              THEN {"setPlayMode", "setVolume", "setHighlightedListAudioUrl"}
              ELSE {})

\* the arguments a function of the store is called with
StoreArguments(function) ==
    CASE function \in {"setSelectedId", "setPlayingId", "setHoveredId"} ->
            {<<"null">>, <<"1">>}
      [] function = "setHoveredName" -> {<<"null">>, <<"">>, <<"sound1">>}
      [] function = "setPointerPosition" ->
            {<<x, y>> : x \in {<<>>, <<0>>}, y \in {<<>>, <<0>>}}
      [] function = "setHoverTooltipMode" -> {<<"follow">>, <<"fixed">>}
      [] function = "setPlayMode" -> {<<"hover">>, <<"click">>}
      [] function = "setVolume" -> {<<10>>, <<0>>}
      [] function = "setHighlightedListAudioUrl" -> {<<"null">>, <<"/audio/user/1">>}
      [] function = "refreshGalaxy" -> {<<>>}

\* what the function hands to set: an object, or for refreshGalaxy what its
\* updater returns for the state s
StorePartial(function, args, s) ==
    CASE function = "setSelectedId" -> [selectedId |-> args[1]]
      [] function = "setPlayingId" -> [playingId |-> args[1]]
      [] function = "setHoveredId" -> [hoveredId |-> args[1]]
      [] function = "setHoveredName" -> [hoveredName |-> args[1]]
      [] function = "setPointerPosition" -> [pointerX |-> args[1], pointerY |-> args[2]]
      [] function = "setHoverTooltipMode" -> [hoverTooltipMode |-> args[1]]
      [] function = "setPlayMode" -> [playMode |-> args[1]]
      [] function = "setVolume" -> [volume |-> args[1]]
      [] function = "setHighlightedListAudioUrl" -> [highlightedListAudioUrl |-> args[1]]
      [] function = "refreshGalaxy" -> [galaxyVersion |-> s.galaxyVersion + 1]

\* A slip: set(partial, true), which replaces the state.
setReplaces(s, partial) == partial

\* zustand's set(partial): Object.assign({}, state, partial)
set(s, partial) ==
    [k \in DOMAIN s \cup DOMAIN partial |->
        IF k \in DOMAIN partial THEN partial[k] ELSE s[k]]

\* A slip: the fixed tooltip whatever the mode.
showFixedTooltipAnyMode(s) == s.hoveredName # "null"

\* App: hoveredName != null && pointerX != null && pointerY != null
\*      && hoverTooltipMode === 'follow'
showFollowTooltip(s) ==
    /\ s.hoveredName # "null"
    /\ s.pointerX # <<>>
    /\ s.pointerY # <<>>
    /\ s.hoverTooltipMode = "follow"

\* App: hoveredName != null && hoverTooltipMode === 'fixed'
showFixedTooltip(s) == s.hoveredName # "null" /\ s.hoverTooltipMode = "fixed"

\* the tooltips App renders for the state s
AppTooltips(s) ==
    (IF showFollowTooltip(s) THEN {"sound-tooltip-follow"} ELSE {})
        \cup (IF showFixedTooltip(s) THEN {"sound-tooltip-fixed"} ELSE {})

StoreInit ==
    /\ KDIdle
    /\ HTIdle
    /\ ToneIdle
    /\ SceneIdle
    /\ PanelIdle
    /\ FetchRunIdle
    /\ store \in {[revision |-> revision, state |-> StoreState(revision),
                   last |-> [function |-> "create", args |-> <<>>]] :
                      revision \in StoreRevisions}

\* A call of a function of the store; galaxyVersion stays within its bound.
StoreCall(function, args) ==
    /\ function \in StoreFunctions(store.revision)
    /\ function = "refreshGalaxy" => store.state.galaxyVersion < MaxGalaxyVersion
    /\ store' = [store EXCEPT
                    !.state = set(@, StorePartial(function, args, @)),
                    !.last = [function |-> function, args |-> args]]
    /\ UNCHANGED <<kdVars, htVars, tone, scene, panel, fetchRun>>

StoreNext ==
    \E function \in StoreFunctions("useAppStore.ts:71") :
        \E args \in StoreArguments(function) : StoreCall(function, args)

SpecStore == StoreInit /\ [][StoreNext]_vars

----------------------------------------------------------------------------
(* components/UploadPanel.tsx: useUploadPanelLogic, UploadDropdown and     *)
(* UploadPanel                                                             *)

(* The sources hold two revisions of the component: the one of             *)
(* components/UploadPanel.tsx, and the one of unnamed/part_004, whose      *)
(* "Delete (n)" button calls deleteSelected itself, which has no restore   *)
(* and no uploadPanelMessage.  panel.revision says which one runs.  The     *)
(* first lines of components/UploadPanel.tsx hold the earliest revision,   *)
(* whose list is shown while the pointer is over the button                *)
(* (uploadListHovered); of it the model has the list and its effect.       *)
(*                                                                         *)
(* panel.tasks are the async functions under way, each                     *)
(*   op         the function                                               *)
(*   pc         "ids": awaiting the list of ids; "request": awaiting the   *)
(*              request to its endpoint; "await": awaiting anything else   *)
(*   count      ids.length, userIdsInt.length or allowedFiles.length       *)
(*   by         the button that called the function and the confirmation   *)
(*              that was shown when it was pressed                         *)
(*   effect     fetchUserUploadedSounds called by the effect on open       *)
(*   cancelled  the effect's cancelled flag                                *)
(*   files      of handleFileChange, the files of the change event         *)
(*   requests   the file of each request to /api/upload it sent            *)
(*   results    the promise of each of them: "pending", "fulfilled",       *)
(*              "rejected"                                                 *)

Revisions == {"UploadPanel.tsx", "part_004"}

\* The revision of the first lines of UploadPanel.tsx.
HoverRevision == "UploadPanel.tsx:21"

\* A point of /api/sounds?source=user as the server sends it.
UserSound(i) ==
    [id       |-> JsNumber(ToString(i)),
     name     |-> "my/sound" \o ToString(i) \o ".wav",
     audioUrl |-> "/audio/user/" \o ToString(i)]

\* A point without a numeric id, a name or an audioUrl.
BareSound == [id |-> JsString("x"), name |-> "undefined", audioUrl |-> "undefined"]

\* a ?? fallback
OrElse(a, fallback) == IF a \in {"undefined", "null"} THEN fallback ELSE a

\* points.map((point) => ({ id: ..., name: ..., audioUrl: ... }))
UploadedFile(point) ==
    [id       |-> IF point.id.type = "number" THEN point.id.repr ELSE "0",
     name     |-> OrElse(point.name, "Unknown"),
     audioUrl |-> OrElse(point.audioUrl, "")]

HttpOk == [kind |-> "ok"]
HttpNoIds == [kind |-> "noids"]
HttpIds(ids) == [kind |-> "ids", ids |-> ids]

\* e.message of what a fetch that rejects, or a res.json() that fails,
\* throws; the text is the browser's.
ErrorMessage(res) ==
    IF res.kind = "reject" THEN "Failed to fetch" ELSE "Unexpected token"

\* fetchUserUploadedSounds(): rejected, or the files it resolves to
fetchUserUploadedSounds(res) ==
    IF Throws(res) THEN [rejected |-> TRUE, files |-> <<>>]
    ELSE LET points == IF res.kind = "points" THEN res.points ELSE <<>>
         IN  [rejected |-> FALSE,
              files |-> [i \in 1..Len(points) |-> UploadedFile(points[i])]]

\* fetchAllBuiltinIds(): rejected with a message, or the ids
fetchAllBuiltinIds(res) ==
    IF Throws(res) THEN [rejected |-> TRUE, message |-> ErrorMessage(res), ids |-> <<>>]
    ELSE [rejected |-> FALSE, message |-> "",
          ids |-> IF res.kind = "ids" THEN res.ids ELSE <<>>]

\* fetchHiddenBuiltinIds(): rejected with a message, or the hidden_ids
fetchHiddenBuiltinIds(res) ==
    IF Throws(res) THEN [rejected |-> TRUE, message |-> ErrorMessage(res), ids |-> <<>>]
    ELSE [rejected |-> FALSE, message |-> "",
          ids |-> IF res.kind = "ids" THEN res.ids ELSE <<>>]

UserSoundResponses ==
    {HttpPoints(<<UserSound(1), BareSound>>),
     HttpNotOk, HttpReject, HttpBadJson, HttpNoPoints}

IdsResponses ==
    {HttpIds(<<"b1", "b2">>), HttpIds(<<>>), HttpNotOk, HttpReject, HttpBadJson, HttpNoIds}

\* What a request whose body is not read can produce.
RequestResponses == {HttpOk, HttpNotOk, HttpReject}

\* A File of a change event of the inputs; its name is the sequence of its
\* characters.
File(name) == [name |-> name]

\* The files of a change event: none, files that are no audio files (an
\* extension that is not the last one, a name without a dot), audio files
\* with extensions in either case, a name that is an extension only.
FileLists ==
    {<<>>,
     <<File(<<"n", ".", "t", "x", "t">>)>>,
     <<File(<<"a", ".", "w", "a", "v">>)>>,
     <<File(<<"a", ".", "W", "a", "V">>), File(<<"b", ".", "m", "p", "3">>)>>,
     <<File(<<"w", "a", "v">>), File(<<".", "f", "l", "a", "c">>)>>,
     <<File(<<"a", ".", "o", "g", "g", ".", "t", "x", "t">>),
       File(<<"a", ".", "t", "x", "t", ".", "A", "A", "C">>),
       File(<<"m", "4", "a">>)>>}

ToLowerCase(ch) ==
    CASE ch = "W" -> "w"
      [] ch = "A" -> "a"
      [] ch = "V" -> "v"
      [] ch = "C" -> "c"
      [] OTHER -> ch

\* the alternatives of /\.(wav|mp3|ogg|flac|m4a|aac)$/i
Alternatives ==
    {<<"w", "a", "v">>, <<"m", "p", "3">>, <<"o", "g", "g">>,
     <<"f", "l", "a", "c">>, <<"m", "4", "a">>, <<"a", "a", "c">>}

\* A slip: the pattern without its $.
allowedFileTypesUnanchored(f) ==
    \E i \in 1..Len(f.name), k \in 0..Len(f.name) :
        /\ f.name[i] = "."
        /\ i + k <= Len(f.name)
        /\ [j \in 1..k |-> ToLowerCase(f.name[i + j])] \in Alternatives

\* allowedFileTypes.test(f.name): the pattern matches from some index i, a
\* dot there, one of the alternatives after it whatever its case, and then
\* the end of the name
allowedFileTypes(f) ==
    \E i \in 1..Len(f.name) :
        /\ f.name[i] = "."
        /\ [j \in 1..(Len(f.name) - i) |-> ToLowerCase(f.name[i + j])] \in Alternatives

NoButton == [pressed |-> "none", confirmation |-> "null"]

Task(op, pc, count, by) ==
    [op |-> op, pc |-> pc, count |-> count, by |-> by,
     effect |-> FALSE, cancelled |-> FALSE,
     files |-> <<>>, requests |-> <<>>, results |-> <<>>]

ListTask(effect) == [Task("list", "await", 0, NoButton) EXCEPT !.effect = effect]

StartTask(p, task) == [p EXCEPT !.tasks = Append(@, task)]

EndTask(p, t) ==
    [p EXCEPT !.tasks = SubSeq(@, 1, t - 1) \o SubSeq(@, t + 1, Len(@))]

\* The panel after its first render, the dropdown closed.
PanelStart(revision) ==
    [revision               |-> revision,
     isUploadDropdownOpen   |-> FALSE,
     uploadListHovered      |-> FALSE,      \* HoverRevision's
     uploadStatus           |-> "idle",     \* the parent's state, a prop
     uploadMessage          |-> "",         \* the parent's state
     uploadedFiles          |-> <<>>,
     selectionMode          |-> FALSE,
     selectedIds            |-> {},
     confirmAction          |-> "null",
     confirmRestore         |-> FALSE,
     deleteError            |-> "null",
     panelMessage           |-> "null",
     restoreMessage         |-> "null",
     uploadPanelMessage     |-> "null",
     uploadPanelMessageType |-> "success",
     galaxyVersion          |-> 0,          \* the store's galaxyVersion
     fileDialog             |-> FALSE,      \* the browser's file chooser is open
     uploadCounts           |-> <<>>,       \* of the last handleFileChange that ended
     tasks                  |-> <<>>,
     lastEvent              |-> "other"]    \* "open": a confirmation was opened;
                                            \* "cancel": a Cancel button was pressed;
                                            \* "dropped": the response of a cancelled
                                            \* effect arrived; "idsEmpty", "idsFailed":
                                            \* a list of ids arrived empty, failed
                                            \* to arrive; "requestFailed",
                                            \* "requestOk": a request to delete, hide
                                            \* or restore failed, succeeded; "toggle":
                                            \* a checkbox was changed; "select":
                                            \* selection mode was entered

\* refreshGalaxy of the store, called by the panel
panelRefreshGalaxy(p) == [p EXCEPT !.galaxyVersion = @ + 1]

\* a cleanup that leaves cancelled as it is
panelEffectCleanupForgets(p) == p

\* useEffect(..., [isUploadDropdownOpen]), the one that fetches: its cleanup
panelEffectCleanup(p) ==
    [p EXCEPT !.tasks = [i \in 1..Len(@) |->
                            IF @[i].effect THEN [@[i] EXCEPT !.cancelled = TRUE]
                            ELSE @[i]]]

\* and its body; part_004 has no restoreMessage and no uploadPanelMessage,
\* there they are null throughout
panelEffectSetup(p) ==
    IF ~p.isUploadDropdownOpen THEN p
    ELSE StartTask([p EXCEPT !.panelMessage = "null",
                             !.restoreMessage = "null",
                             !.uploadPanelMessage = "null"], ListTask(TRUE))

\* useEffect(..., [uploadListHovered]) of HoverRevision: its cleanup is
\* panelEffectCleanup's, cancelled = true
hoverListEffectSetup(p) ==
    IF ~p.uploadListHovered THEN p
    ELSE StartTask(p, [ListTask(TRUE) EXCEPT !.op = "hoverList"])

PanelEffects(old, new) ==
    IF old.isUploadDropdownOpen # new.isUploadDropdownOpen
    THEN panelEffectSetup(panelEffectCleanup(new))
    ELSE IF old.uploadListHovered # new.uploadListHovered
    THEN hoverListEffectSetup(panelEffectCleanup(new))
    ELSE new

\* points.map((p) => ({ name: ..., audioUrl: ... })) of HoverRevision
HoverUploadedFile(point) ==
    [name     |-> OrElse(point.name, "Unknown"),
     audioUrl |-> OrElse(point.audioUrl, "")]

\* the .then chain and the .catch of HoverRevision's effect
hoverListSettled(p, t, res) ==
    LET points == IF res.kind = "points" THEN res.points ELSE <<>>
        done   == EndTask(p, t)
    IN  IF p.tasks[t].cancelled THEN done
        ELSE IF Throws(res) THEN [done EXCEPT !.uploadedFiles = <<>>]
        ELSE [done EXCEPT !.uploadedFiles =
                              [i \in 1..Len(points) |-> HoverUploadedFile(points[i])]]

\* the .then and .catch of a fetchUserUploadedSounds() call
uploadedSoundsSettled(p, t, res) ==
    LET got  == fetchUserUploadedSounds(res)
        task == p.tasks[t]
        done == EndTask(p, t)
    IN  IF task.effect
        THEN IF task.cancelled THEN done
             ELSE [done EXCEPT !.uploadedFiles = IF got.rejected THEN <<>> ELSE got.files]
        ELSE IF got.rejected THEN done
             ELSE [done EXCEPT !.uploadedFiles = got.files]

handleFileClick(p) ==
    [p EXCEPT !.uploadStatus = "idle", !.uploadMessage = "", !.fileDialog = TRUE]

handleFolderClick(p) ==
    [p EXCEPT !.uploadStatus = "idle", !.uploadMessage = "", !.fileDialog = TRUE]

\* handleFileChange up to its await: allowedFiles.map has sent a request
\* for each of the allowedFiles
handleFileChange(p, files) ==
    LET closed == [p EXCEPT !.fileDialog = FALSE]
    IN  IF Len(files) = 0 THEN closed
        ELSE LET allowedFiles == SelectSeq(files, allowedFileTypes)
             IN  StartTask(
                    [closed EXCEPT
                        !.uploadStatus = "uploading",
                        !.uploadMessage =
                            "Processing " \o ToString(Len(allowedFiles)) \o " file(s)..."],
                    [Task("handleFileChange", "await", Len(allowedFiles), NoButton)
                        EXCEPT !.files = files,
                               !.requests = allowedFiles,
                               !.results = [i \in 1..Len(allowedFiles) |-> "pending"]])

\* the async function of allowedFiles.map for request i, from its await
\* fetch on
uploadSettled(p, t, i, res) ==
    [p EXCEPT !.tasks[t].results[i] =
                  IF res.kind = "ok" THEN "fulfilled" ELSE "rejected"]

\* results.filter((r) => r.status === status).length
CountStatus(results, status) ==
    Cardinality({i \in 1..Len(results) : results[i] = status})

\* handleFileChange after Promise.allSettled; uploadCounts keeps the
\* successCount and failCount it computed
handleFileChangeSettled(p, t) ==
    LET successCount == CountStatus(p.tasks[t].results, "fulfilled")
        failCount    == CountStatus(p.tasks[t].results, "rejected")
        done         == [EndTask(p, t) EXCEPT
                            !.uploadCounts = [successCount |-> successCount,
                                              failCount    |-> failCount]]
    IN  IF p.revision = "UploadPanel.tsx"
        THEN IF successCount > 0
             THEN StartTask(
                    panelRefreshGalaxy(
                      [done EXCEPT
                          !.uploadStatus = "idle",
                          !.uploadMessage = "",
                          !.uploadPanelMessage =
                              IF failCount > 0
                              THEN ToString(successCount) \o " file(s) uploaded, "
                                       \o ToString(failCount) \o " failed"
                              ELSE ToString(successCount) \o " file(s) uploaded successfully",
                          !.uploadPanelMessageType =
                              IF failCount > 0 THEN "error" ELSE "success"]),
                    ListTask(FALSE))
             ELSE [done EXCEPT
                      !.uploadStatus = "error",
                      !.uploadMessage = "",
                      !.uploadPanelMessage =
                          IF failCount > 0 THEN "Upload failed" ELSE "No audio files found",
                      !.uploadPanelMessageType = "error"]
        ELSE IF successCount > 0
             THEN StartTask(
                    panelRefreshGalaxy(
                      [done EXCEPT
                          !.uploadStatus = "ok",
                          !.uploadMessage =
                              "Added " \o ToString(successCount) \o " sound"
                                  \o (IF successCount # 1 THEN "s" ELSE "")]),
                    ListTask(FALSE))
             ELSE [done EXCEPT
                      !.uploadStatus = "error",
                      !.uploadMessage =
                          IF failCount > 0 THEN "Upload failed" ELSE "No audio files found"]

\* A slip: toggleSelected without next.delete(id).
toggleSelectedAddsOnly(p, id) == [p EXCEPT !.selectedIds = @ \cup {id}]

toggleSelected(p, id) ==
    [p EXCEPT !.selectedIds = IF id \in @ THEN @ \ {id} ELSE @ \cup {id}]

enterSelectionMode(p) == [p EXCEPT !.selectedIds = {}, !.selectionMode = TRUE]

\* deleteAllBuiltin up to await fetchAllBuiltinIds()
deleteAllBuiltin(p, by) ==
    StartTask([p EXCEPT !.deleteError = "null"], Task("deleteAllBuiltin", "ids", 0, by))

\* A slip: no return at ids.length === 0.
deleteAllBuiltinIdsUnchecked(p, t, res) ==
    LET got  == fetchAllBuiltinIds(res)
        done == EndTask(p, t)
    IN  IF got.rejected THEN [done EXCEPT !.deleteError = got.message]
        ELSE [p EXCEPT !.tasks[t].pc = "request", !.tasks[t].count = Len(got.ids)]

\* from there up to await fetch(.../api/sounds/hide-builtin)
deleteAllBuiltinIds(p, t, res) ==
    LET got  == fetchAllBuiltinIds(res)
        done == EndTask(p, t)
    IN  IF got.rejected THEN [done EXCEPT !.deleteError = got.message]
        ELSE IF Len(got.ids) = 0 THEN [done EXCEPT !.confirmAction = "null"]
        ELSE [p EXCEPT !.tasks[t].pc = "request", !.tasks[t].count = Len(got.ids)]

\* and from there to the end
deleteAllBuiltinSettled(p, t, res) ==
    LET done == EndTask(p, t)
    IN  IF res.kind = "reject" THEN [done EXCEPT !.deleteError = ErrorMessage(res)]
        ELSE IF res.kind = "notok"
        THEN [done EXCEPT !.deleteError = "Failed to hide built-in sounds"]
        ELSE StartTask(
                [panelRefreshGalaxy([done EXCEPT !.confirmAction = "null"])
                    EXCEPT !.panelMessage = "All built-in sounds hidden"],
                ListTask(FALSE))

\* deleteAllUser up to await fetch(.../api/sounds/user/all)
deleteAllUser(p, by) ==
    StartTask([p EXCEPT !.deleteError = "null"], Task("deleteAllUser", "request", 0, by))

\* A slip: the confirmation closed in the catch as well.
deleteAllUserSettledClosesOnError(p, t, res) ==
    LET done == EndTask(p, t)
    IN  IF res.kind = "reject"
        THEN [done EXCEPT !.deleteError = ErrorMessage(res), !.confirmAction = "null"]
        ELSE IF res.kind = "notok"
        THEN [done EXCEPT !.deleteError = "Failed to delete user sounds",
                          !.confirmAction = "null"]
        ELSE [panelRefreshGalaxy([done EXCEPT !.confirmAction = "null"])
                 EXCEPT !.uploadedFiles = <<>>,
                        !.panelMessage = "All user sounds deleted"]

deleteAllUserSettled(p, t, res) ==
    LET done == EndTask(p, t)
    IN  IF res.kind = "reject" THEN [done EXCEPT !.deleteError = ErrorMessage(res)]
        ELSE IF res.kind = "notok"
        THEN [done EXCEPT !.deleteError = "Failed to delete user sounds"]
        ELSE [panelRefreshGalaxy([done EXCEPT !.confirmAction = "null"])
                 EXCEPT !.uploadedFiles = <<>>,
                        !.panelMessage = "All user sounds deleted"]

\* deleteSelected up to await fetch(.../api/sounds/bulk)
deleteSelected(p, by) ==
    IF p.selectedIds = {} THEN p
    ELSE StartTask([p EXCEPT !.deleteError = "null"],
                   Task("deleteSelected", "request", Cardinality(p.selectedIds), by))

\* A slip: the message counts selectedIds instead of userIdsInt.
deleteSelectedSettledCountsSelection(p, t, res) ==
    LET done == EndTask(p, t)
    IN  IF res.kind = "reject" THEN [done EXCEPT !.deleteError = ErrorMessage(res)]
        ELSE IF res.kind = "notok"
        THEN [done EXCEPT !.deleteError = "Failed to delete user sounds"]
        ELSE StartTask(
                [panelRefreshGalaxy(
                    IF p.revision = "UploadPanel.tsx"
                    THEN [done EXCEPT !.confirmAction = "null"] ELSE done)
                    EXCEPT !.selectionMode = FALSE,
                           !.selectedIds = {},
                           !.panelMessage =
                               "Deleted " \o ToString(Cardinality(p.selectedIds))
                                   \o " sound(s)"],
                ListTask(FALSE))

deleteSelectedSettled(p, t, res) ==
    LET done == EndTask(p, t)
    IN  IF res.kind = "reject" THEN [done EXCEPT !.deleteError = ErrorMessage(res)]
        ELSE IF res.kind = "notok"
        THEN [done EXCEPT !.deleteError = "Failed to delete user sounds"]
        ELSE StartTask(
                [panelRefreshGalaxy(
                    IF p.revision = "UploadPanel.tsx"
                    THEN [done EXCEPT !.confirmAction = "null"] ELSE done)
                    EXCEPT !.selectionMode = FALSE,
                           !.selectedIds = {},
                           !.panelMessage =
                               "Deleted " \o ToString(p.tasks[t].count) \o " sound(s)"],
                ListTask(FALSE))

\* restoreAllBuiltin up to await fetchHiddenBuiltinIds()
restoreAllBuiltin(p, by) ==
    StartTask([p EXCEPT !.deleteError = "null", !.confirmRestore = FALSE],
              Task("restoreAllBuiltin", "ids", 0, by))

\* from there up to await fetch(.../api/sounds/show-builtin)
restoreAllBuiltinIds(p, t, res) ==
    LET got  == fetchHiddenBuiltinIds(res)
        done == EndTask(p, t)
    IN  IF got.rejected THEN [done EXCEPT !.deleteError = got.message]
        ELSE IF Len(got.ids) = 0
        THEN [done EXCEPT !.restoreMessage = "No hidden built-in sounds"]
        ELSE [p EXCEPT !.tasks[t].pc = "request", !.tasks[t].count = Len(got.ids)]

restoreAllBuiltinSettled(p, t, res) ==
    LET done == EndTask(p, t)
    IN  IF res.kind = "reject" THEN [done EXCEPT !.deleteError = ErrorMessage(res)]
        ELSE IF res.kind = "notok"
        THEN [done EXCEPT !.deleteError = "Failed to restore built-in sounds"]
        ELSE [panelRefreshGalaxy(done)
                 EXCEPT !.restoreMessage =
                            "Restored " \o ToString(p.tasks[t].count)
                                \o " built-in sound(s)"]

\* the Yes button of the confirm view
confirmYes(p) ==
    LET by == [pressed |-> "Yes", confirmation |-> p.confirmAction]
    IN  IF p.revision = "UploadPanel.tsx"
        THEN IF p.confirmAction = "delete-all-builtin" THEN deleteAllBuiltin(p, by)
             ELSE IF p.confirmAction = "delete-all-user" THEN deleteAllUser(p, by)
             ELSE IF p.confirmAction = "delete-selected" THEN deleteSelected(p, by)
             ELSE p
        ELSE IF p.confirmAction = "delete-all-builtin" THEN deleteAllBuiltin(p, by)
             ELSE deleteAllUser(p, by)

\* the Cancel button of the confirm view
confirmCancel(p) == [p EXCEPT !.confirmAction = "null", !.deleteError = "null"]

\* the "Delete (n)" button of selection mode
deleteButton(p) ==
    IF p.revision = "UploadPanel.tsx"
    THEN [p EXCEPT !.confirmAction = "delete-selected"]
    ELSE deleteSelected(p, [pressed |-> "Delete", confirmation |-> "null"])

\* the Yes and Cancel buttons of the restore confirmation
restoreYes(p) == restoreAllBuiltin(p, [pressed |-> "Yes", confirmation |-> "restore"])

restoreCancel(p) == [p EXCEPT !.confirmRestore = FALSE, !.deleteError = "null"]

\* What the dropdown shows; nothing of the page can be pressed while the
\* browser's file chooser is open.  The list's play buttons (playAudioUrl)
\* and their highlight are left out.
DropdownShown == panel.isUploadDropdownOpen /\ ~panel.fileDialog
ConfirmView == DropdownShown /\ panel.confirmAction # "null"
MainView == DropdownShown /\ panel.confirmAction = "null"

\* The events panel.lastEvent tells apart.
PanelEvents ==
    {"open", "cancel", "dropped", "idsEmpty", "idsFailed", "requestFailed", "requestOk",
     "toggle", "select"}

\* The step to the panel next and the effects after its render; the tasks
\* under way and galaxyVersion stay within the bounds.
PanelStep(next, event) ==
    LET after == PanelEffects(panel, next)
    IN  /\ Len(after.tasks) <= MaxTasks
        /\ after.galaxyVersion <= MaxRefreshes
        /\ panel' = [after EXCEPT
                        !.lastEvent = IF event \in PanelEvents THEN event ELSE "other"]
        /\ UNCHANGED <<kdVars, htVars, tone, scene, fetchRun, store>>

PanelInit ==
    /\ KDIdle
    /\ HTIdle
    /\ ToneIdle
    /\ SceneIdle
    /\ FetchRunIdle
    /\ StoreIdle
    /\ panel \in {PanelStart(revision) : revision \in Revisions}

\* the trigger button; onUploadPanelOpen is the parent's, which closes its
\* other panels
TriggerClick ==
    /\ panel.revision \in Revisions
    /\ ~panel.fileDialog
    /\ panel.uploadStatus # "uploading"
    /\ PanelStep([panel EXCEPT !.isUploadDropdownOpen = ~@], "trigger")

\* handleClickOutside
ClickOutside ==
    /\ DropdownShown
    /\ PanelStep([panel EXCEPT !.isUploadDropdownOpen = FALSE], "clickOutside")

UploadedSoundsSettled(t, res) ==
    /\ panel.tasks[t].op = "list"
    /\ PanelStep(uploadedSoundsSettled(panel, t, res),
                 IF panel.tasks[t].cancelled THEN "dropped" ELSE "settled")

\* onMouseEnter and onMouseLeave of HoverRevision's wrap
MouseEnter ==
    /\ panel.revision = HoverRevision
    /\ ~panel.uploadListHovered
    /\ PanelStep([panel EXCEPT !.uploadListHovered = TRUE], "mouseEnter")

MouseLeave ==
    /\ panel.revision = HoverRevision
    /\ panel.uploadListHovered
    /\ PanelStep([panel EXCEPT !.uploadListHovered = FALSE], "mouseLeave")

HoverListSettled(t, res) ==
    /\ panel.tasks[t].op = "hoverList"
    /\ PanelStep(hoverListSettled(panel, t, res),
                 IF panel.tasks[t].cancelled THEN "dropped" ELSE "settled")

\* A slip: the upload buttons without their disabled attribute.
FileClickNeverDisabled ==
    /\ MainView
    /\ \/ PanelStep(handleFileClick(panel), "fileClick")
       \/ PanelStep(handleFolderClick(panel), "folderClick")

\* the "Upload file(s)" and "Upload folder" buttons, disabled while
\* uploading
FileClick ==
    /\ MainView
    /\ panel.uploadStatus # "uploading"
    /\ \/ PanelStep(handleFileClick(panel), "fileClick")
       \/ PanelStep(handleFolderClick(panel), "folderClick")

\* the change event of an input; closing the chooser without a choice
\* fires none; a batch starts only while the galaxy can still be refreshed
\* within MaxRefreshes
FileChange(files) ==
    /\ panel.fileDialog
    /\ Len(files) > 0 => panel.galaxyVersion < MaxRefreshes
    /\ PanelStep(handleFileChange(panel, files), "fileChange")

FileDialogClosed ==
    /\ panel.fileDialog
    /\ PanelStep([panel EXCEPT !.fileDialog = FALSE], "fileDialogClosed")

UploadSettled(t, i, res) ==
    /\ panel.tasks[t].op = "handleFileChange"
    /\ i \in 1..Len(panel.tasks[t].results)
    /\ panel.tasks[t].results[i] = "pending"
    /\ PanelStep(uploadSettled(panel, t, i, res), "settled")

\* Promise.allSettled resolves once no result is pending
FileChangeSettled(t) ==
    /\ panel.tasks[t].op = "handleFileChange"
    /\ CountStatus(panel.tasks[t].results, "pending") = 0
    /\ PanelStep(handleFileChangeSettled(panel, t), "settled")

UploadPanelMessageDismiss ==
    /\ MainView
    /\ panel.revision = "UploadPanel.tsx"
    /\ panel.uploadPanelMessage # "null"
    /\ PanelStep([panel EXCEPT !.uploadPanelMessage = "null"], "dismiss")

PanelMessageDismiss ==
    /\ MainView
    /\ panel.revision = "UploadPanel.tsx"
    /\ panel.panelMessage # "null"
    /\ PanelStep([panel EXCEPT !.panelMessage = "null"], "dismiss")

RestoreMessageDismiss ==
    /\ MainView
    /\ panel.revision = "UploadPanel.tsx"
    /\ panel.restoreMessage # "null"
    /\ PanelStep([panel EXCEPT !.restoreMessage = "null"], "dismiss")

ToggleSelected(id) ==
    /\ MainView
    /\ panel.selectionMode
    /\ \E i \in 1..Len(panel.uploadedFiles) : panel.uploadedFiles[i].id = id
    /\ PanelStep(toggleSelected(panel, id), "toggle")

EnterSelectionMode ==
    /\ MainView
    /\ ~panel.selectionMode
    /\ panel.uploadStatus # "uploading"
    /\ Len(panel.uploadedFiles) # 0
    /\ PanelStep(enterSelectionMode(panel), "select")

\* the Cancel button of selection mode
SelectionCancel ==
    /\ MainView
    /\ panel.selectionMode
    /\ PanelStep([panel EXCEPT !.selectionMode = FALSE], "cancel")

\* the "Delete all built-in" and "Delete all user" buttons
OpenConfirm(action) ==
    /\ MainView
    /\ panel.uploadStatus # "uploading"
    /\ PanelStep([panel EXCEPT !.confirmAction = action], "open")

DeleteButton ==
    /\ MainView
    /\ panel.selectionMode
    /\ panel.selectedIds # {}
    /\ PanelStep(deleteButton(panel),
                 IF panel.revision = "UploadPanel.tsx" THEN "open" ELSE "delete")

ConfirmYes ==
    /\ ConfirmView
    /\ PanelStep(confirmYes(panel), "yes")

ConfirmCancel ==
    /\ ConfirmView
    /\ PanelStep(confirmCancel(panel), "cancel")

\* the "Restore all deleted built-in" button
OpenRestore ==
    /\ MainView
    /\ panel.revision = "UploadPanel.tsx"
    /\ ~panel.confirmRestore
    /\ panel.uploadStatus # "uploading"
    /\ PanelStep([panel EXCEPT !.confirmRestore = TRUE], "open")

RestoreYes ==
    /\ MainView
    /\ panel.revision = "UploadPanel.tsx"
    /\ panel.confirmRestore
    /\ PanelStep(restoreYes(panel), "yes")

RestoreCancel ==
    /\ MainView
    /\ panel.revision = "UploadPanel.tsx"
    /\ panel.confirmRestore
    /\ PanelStep(restoreCancel(panel), "cancel")

\* the event of a list of ids arriving: empty when the response is not ok,
\* has no array or an empty one; failed when the fetch or res.json() throws
IdsEvent(res) ==
    IF Throws(res) THEN "idsFailed"
    ELSE IF res.kind = "ids" => Len(res.ids) = 0 THEN "idsEmpty"
    ELSE "settled"

IdsSettled(t, res) ==
    /\ panel.tasks[t].pc = "ids"
    /\ \/ /\ panel.tasks[t].op = "deleteAllBuiltin"
          /\ PanelStep(deleteAllBuiltinIds(panel, t, res), IdsEvent(res))
       \/ /\ panel.tasks[t].op = "restoreAllBuiltin"
          /\ PanelStep(restoreAllBuiltinIds(panel, t, res), IdsEvent(res))

\* the event of the response to a request arriving
RequestEvent(res) == IF res.kind = "ok" THEN "requestOk" ELSE "requestFailed"

RequestSettled(t, res) ==
    /\ panel.tasks[t].pc = "request"
    /\ \/ /\ panel.tasks[t].op = "deleteAllBuiltin"
          /\ PanelStep(deleteAllBuiltinSettled(panel, t, res), RequestEvent(res))
       \/ /\ panel.tasks[t].op = "deleteAllUser"
          /\ PanelStep(deleteAllUserSettled(panel, t, res), RequestEvent(res))
       \/ /\ panel.tasks[t].op = "deleteSelected"
          /\ PanelStep(deleteSelectedSettled(panel, t, res), RequestEvent(res))
       \/ /\ panel.tasks[t].op = "restoreAllBuiltin"
          /\ PanelStep(restoreAllBuiltinSettled(panel, t, res), RequestEvent(res))

Tasks == 1..Len(panel.tasks)

\* the ids a checkbox can carry
FileIds == {"0", "1"}

\* Opening and closing the dropdown, selecting, deleting, hiding and
\* restoring, with the requests settling in any order.
PanelNext ==
    \/ TriggerClick
    \/ ClickOutside
    \/ \E t \in Tasks, res \in UserSoundResponses : UploadedSoundsSettled(t, res)
    \/ PanelMessageDismiss
    \/ RestoreMessageDismiss
    \/ \E id \in FileIds : ToggleSelected(id)
    \/ EnterSelectionMode
    \/ SelectionCancel
    \/ \E action \in {"delete-all-builtin", "delete-all-user"} : OpenConfirm(action)
    \/ DeleteButton
    \/ ConfirmYes
    \/ ConfirmCancel
    \/ OpenRestore
    \/ RestoreYes
    \/ RestoreCancel
    \/ \E t \in Tasks, res \in IdsResponses : IdsSettled(t, res)
    \/ \E t \in Tasks, res \in RequestResponses : RequestSettled(t, res)

SpecPanel == PanelInit /\ [][PanelNext]_vars

UploadInit ==
    /\ KDIdle
    /\ HTIdle
    /\ ToneIdle
    /\ SceneIdle
    /\ FetchRunIdle
    /\ StoreIdle
    /\ panel \in {PanelStart(revision) : revision \in Revisions \cup {HoverRevision}}

\* Uploading files, with the dropdown opened and closed; in HoverRevision
\* the pointer over the button and away from it.
UploadNext ==
    \/ TriggerClick
    \/ ClickOutside
    \/ MouseEnter
    \/ MouseLeave
    \/ \E t \in Tasks, res \in UserSoundResponses : UploadedSoundsSettled(t, res)
    \/ \E t \in Tasks, res \in UserSoundResponses : HoverListSettled(t, res)
    \/ FileClick
    \/ \E files \in FileLists : FileChange(files)
    \/ FileDialogClosed
    \/ \E t \in Tasks, i \in 1..2, res \in RequestResponses : UploadSettled(t, i, res)
    \/ \E t \in Tasks : FileChangeSettled(t)
    \/ UploadPanelMessageDismiss

SpecUpload == UploadInit /\ [][UploadNext]_vars

\* The same where every upload request settles and a promise that is
\* resolved runs its continuation.
SpecUploadLive ==
    /\ SpecUpload
    /\ WF_vars(\E t \in Tasks, i \in 1..2, res \in RequestResponses : UploadSettled(t, i, res))
    /\ WF_vars(\E t \in Tasks : FileChangeSettled(t))

----------------------------------------------------------------------------
(* utils/kdTree.ts *)

\* distSq starts at Infinity (nearestNeighbor); every number is below it.
Infinity == -1

LessThan(a, b) == a # Infinity /\ (b = Infinity \/ a < b)

SqDist(point, b) ==
    LET dx == point.x - b.x
        dy == point.y - b.y
    IN  dx * dx + dy * dy

Key(axis) == IF axis = 0 THEN "x" ELSE "y"

\* Array.prototype.sort is stable: an element goes after the elements that
\* compare <= to it and were before it in the input.
RECURSIVE InsertSorted(_, _, _)
InsertSorted(sorted, p, key) ==
    IF sorted = <<>> THEN <<p>>
    ELSE LET last == sorted[Len(sorted)]
         IN  IF last[key] - p[key] <= 0
             THEN Append(sorted, p)
             ELSE Append(InsertSorted(SubSeq(sorted, 1, Len(sorted) - 1), p, key), last)

RECURSIVE SortByAxis(_, _)
SortByAxis(points, axis) ==
    IF points = <<>> THEN <<>>
    ELSE InsertSorted(SortByAxis(SubSeq(points, 1, Len(points) - 1), axis),
                      points[Len(points)], Key(axis))

KDNode(point, axis, left, right) ==
    <<[point |-> point, axis |-> axis, left |-> left, right |-> right]>>

RECURSIVE build(_, _)
build(points, axis) ==
    IF Len(points) = 0 THEN <<>>
    ELSE IF Len(points) = 1 THEN KDNode(points[1], axis, <<>>, <<>>)
    ELSE LET sorted      == SortByAxis(points, axis)
             mid         == Len(sorted) \div 2
             leftPoints  == SubSeq(sorted, 1, mid)
             rightPoints == SubSeq(sorted, mid + 2, Len(sorted))
             nextAxis    == 1 - axis
         IN  KDNode(sorted[mid + 1], axis,
                    build(leftPoints, nextAxis), build(rightPoints, nextAxis))

\* A slip a k-d tree search can have: the far side of the split is never
\* searched.
RECURSIVE nearestNearSideOnly(_, _, _)
nearestNearSideOnly(node, target, best) ==
    IF node = <<>> THEN best
    ELSE LET n     == node[1]
             d     == SqDist(n.point, target)
             b1    == IF LessThan(d, best.distSq)
                      THEN [point |-> <<n.point>>, distSq |-> d] ELSE best
             key   == Key(n.axis)
             diff  == target[key] - n.point[key]
         IN  IF diff <= 0
             THEN nearestNearSideOnly(n.left, target, b1)
             ELSE nearestNearSideOnly(n.right, target, b1)

\* best is the {point, distSq} object the recursion updates in place; here
\* it is threaded through and returned.
RECURSIVE nearest(_, _, _)
nearest(node, target, best) ==
    IF node = <<>> THEN best
    ELSE LET n      == node[1]
             d      == SqDist(n.point, target)
             b1     == IF LessThan(d, best.distSq)
                       THEN [point |-> <<n.point>>, distSq |-> d] ELSE best
             key    == Key(n.axis)
             diff   == target[key] - n.point[key]
             goLeft == diff <= 0
         IN  IF goLeft
             THEN LET b2 == nearest(n.left, target, b1)
                  IN  IF LessThan(diff * diff, b2.distSq)
                      THEN nearest(n.right, target, b2) ELSE b2
             ELSE LET b2 == nearest(n.right, target, b1)
                  IN  IF LessThan(diff * diff, b2.distSq)
                      THEN nearest(n.left, target, b2) ELSE b2

nearestNeighbor(root, x, y) ==
    nearest(root, [x |-> x, y |-> y], [point |-> <<>>, distSq |-> Infinity]).point

\* Point2D lists: the id is the index in the list, so equal coordinates
\* stay distinguishable.
Point2DLists ==
    {[i \in 1..Len(cs) |-> [x |-> cs[i][1], y |-> cs[i][2], id |-> i]] :
        cs \in SeqsUpTo(Coords \X Coords, MaxPoints)}

KDInit ==
    /\ SceneIdle
    /\ PanelIdle
    /\ FetchRunIdle
    /\ StoreIdle
    /\ HTIdle
    /\ ToneIdle
    /\ kdPoints \in Point2DLists
    /\ kdRoot = <<>>
    /\ kdTarget = <<>>
    /\ kdResult = <<>>
    /\ kdPc = "new"

\* new KDTree(points)
KDTreeNew ==
    /\ kdPc = "new"
    /\ kdRoot' = build(kdPoints, 0)
    /\ kdPc' = "built"
    /\ UNCHANGED <<kdPoints, kdTarget, kdResult, htVars, tone, scene, panel, fetchRun, store>>

\* tree.nearestNeighbor(x, y)
KDNearestNeighbor ==
    /\ kdPc = "built"
    /\ \E x \in Coords, y \in Coords :
          /\ kdTarget' = <<[x |-> x, y |-> y]>>
          /\ kdResult' = nearestNeighbor(kdRoot, x, y)
    /\ kdPc' = "queried"
    /\ UNCHANGED <<kdPoints, kdRoot, htVars, tone, scene, panel, fetchRun, store>>

KDNext == KDTreeNew \/ KDNearestNeighbor

SpecKD == KDInit /\ [][KDNext]_vars

----------------------------------------------------------------------------
(* C1: nearestNeighbor returns a point of the list whose squared distance  *)
(* to the query is the minimum a linear scan finds, and returns null only  *)
(* for a tree built from an empty list.                                    *)

LinearScanMin(points, target) ==
    CHOOSE d \in {SqDist(p, target) : p \in Range(points)} :
        \A p \in Range(points) : d <= SqDist(p, target)

----------------------------------------------------------------------------
(* C2: a non-null id returned by findClosestSoundPointToCursor is          *)
(* String(id) of a point at the minimum projected squared distance over    *)
(* the whole list, the lowest-indexed such point, and the returned name is *)
(* that point's name.                                                      *)

IsFirstClosest(points, mouseNdc, i) ==
    /\ \A j \in 1..Len(points) :
          ProjectedDistSq(points[i], mouseNdc) <= ProjectedDistSq(points[j], mouseNdc)
    /\ \A j \in 1..(i - 1) :
          ProjectedDistSq(points[i], mouseNdc) < ProjectedDistSq(points[j], mouseNdc)

C2_ClosestLowestIndex ==
    (htPc = "returned" /\ htResult.id # "null") =>
        \E i \in 1..Len(htPoints) :
            /\ IsFirstClosest(htPoints, htMouse, i)
            /\ htResult.id = String(htPoints[i].id)
            /\ htResult.name = OrNull(htPoints[i].name)

\* two points at the same distance inside the radius, the second unnamed:
\* the first one is returned
C2_Witness ==
    /\ htPc = "returned"
    /\ Len(htPoints) = 2
    /\ ProjectedDistSq(htPoints[1], htMouse) = ProjectedDistSq(htPoints[2], htMouse)
    /\ htPoints[1].coords_3d # htPoints[2].coords_3d
    /\ htResult = [id |-> "1", name |-> "sound1"]

(* C3: findClosestSoundPointToCursor returns a null id and a null name     *)
(* exactly when no point lies within distance HOVER_NDC_RADIUS of the      *)
(* cursor (a point at exactly that distance is within it).                 *)

WithinRadius(point, mouseNdc) ==
    ProjectedDistSq(point, mouseNdc) <= HOVER_NDC_RADIUS * HOVER_NDC_RADIUS

C3_NullIffNoneWithinRadius ==
    htPc = "returned" =>
        /\ (htResult.id = "null") <=>
              ~ \E i \in 1..Len(htPoints) : WithinRadius(htPoints[i], htMouse)
        /\ htResult.id = "null" => htResult.name = "null"

----------------------------------------------------------------------------
(* C4: every call to playAudioUrl, whatever its audioUrl, leaves the       *)
(* player that was active before the call stopped and disposed, and        *)
(* activePlayer no longer refers to it.                                    *)

IsPlayAudioUrlStep == Len(tone'.calls) = Len(tone.calls) + 1

C4_PlayStopsPrevious ==
    [][(IsPlayAudioUrlStep /\ tone.activePlayer # 0) =>
          /\ tone'.calls[tone.activePlayer].state = "stopped"
          /\ tone'.activePlayer # tone.activePlayer]_vars

(* C5: once the function returned by a playAudioUrl call has been called,  *)
(* the sound that call asked for is not playing, and it never starts       *)
(* later, also when its audio finishes loading after the stop.             *)

C5_StoppedNeverSounds ==
    \A c \in Calls : tone.calls[c].stopCalled => tone.calls[c].state # "started"

\* the audio of a stopped call finished loading after the stop
C5_Witness ==
    \E c \in Calls : tone.calls[c].stopCalled /\ tone.calls[c].state = "skipped"

(* C6: at most one player is started and not stopped, and activePlayer     *)
(* refers to the player that sounds.                                       *)

C6_OneSoundingAndActive ==
    /\ Cardinality(Sounding(tone)) <= 1
    /\ \A c \in Sounding(tone) : tone.activePlayer = c

\* a later call's player sounds while an earlier call's audio arrived late
\* and a third call has come and gone
C6_Witness ==
    \E c1, c2, c3 \in Calls :
        /\ c1 < c2 /\ c1 # c3 /\ c2 # c3
        /\ tone.calls[c1].state = "skipped"
        /\ tone.calls[c2].state = "started"
        /\ tone.calls[c3].state \in {"stopped", "ended"}

----------------------------------------------------------------------------
(* C7: in hover play mode the sound of the hovered point is asked for only *)
(* once the hover on that point has lasted HOVER_PLAY_DELAY_MS, and no     *)
(* sound started by hovering plays when that point is no longer hovered.   *)

HoveredAudioUrl(sc) ==
    LET point == FindPoint(sc.points, sc.hoveredId)
    IN  IF point = <<>> THEN "" ELSE point[1].audioUrl

NewCallBy(owner) ==
    /\ Len(tone'.calls) = Len(tone.calls) + 1
    /\ tone'.calls[Len(tone'.calls)].owner = owner

HoverPlayAfterDelay ==
    NewCallBy("hover") =>
        /\ scene.playMode = "hover"
        /\ scene.hoveredId # "null"
        /\ scene'.hoveredId = scene.hoveredId
        /\ scene.hoverElapsed >= HOVER_PLAY_DELAY_MS
        /\ tone'.calls[Len(tone'.calls)].audioUrl = HoveredAudioUrl(scene)

HoverSoundOnlyWhileHovered ==
    \A c \in Calls :
        (tone.calls[c].owner = "hover" /\ tone.calls[c].state = "started") =>
            /\ scene.playMode = "hover"
            /\ scene.hoveredId # "null"
            /\ tone.calls[c].audioUrl = HoveredAudioUrl(scene)

C7_HoverPlaysAfterDelay ==
    []HoverSoundOnlyWhileHovered /\ [][HoverPlayAfterDelay]_vars

\* the hovered point's sound plays, after a hover that was too short to
\* play anything and whose request was stopped before its audio arrived
C7_Witness ==
    /\ scene # <<>>
    /\ scene.hoveredId = "1"
    /\ scene.hoverElapsed >= HOVER_PLAY_DELAY_MS
    /\ \E c, d \in Calls :
          /\ d < c
          /\ tone.calls[c].owner = "hover" /\ tone.calls[c].state = "started"
          /\ tone.calls[d].owner = "hover" /\ tone.calls[d].state = "skipped"

(* C8: in click play mode every pointer-down while a point is hovered sets *)
(* selectedId to that point and starts playback of its audio when it has   *)
(* an audioUrl; in hover mode, or with no point hovered, a pointer-down    *)
(* leaves selectedId unchanged.                                            *)

C8_PointerDownSelectsAndPlays ==
    [][scene'.lastEvent = "pointerDown" =>
          IF scene.playMode = "click" /\ scene.hoveredId # "null"
          THEN /\ scene'.selectedId = scene.hoveredId
               /\ HoveredAudioUrl(scene) # "" =>
                     /\ NewCallBy("click")
                     /\ tone'.calls[Len(tone'.calls)].audioUrl = HoveredAudioUrl(scene)
          ELSE scene'.selectedId = scene.selectedId]_vars

(* C10: the result of the fetch started for a galaxyVersion is applied to  *)
(* points, builtinPoints and userPoints only if galaxyVersion has not      *)
(* changed since and the component is still mounted, so what an older      *)
(* version's response carries never replaces a newer version's points.     *)

FetchSettles(r) == ~scene.fetches[r].settled /\ scene'.fetches[r].settled

FetchAppliedOnlyIfCurrent ==
    \A r \in 1..Len(scene.fetches) :
        FetchSettles(r) =>
            IF scene.mounted /\ scene.fetches[r].galaxyVersion = scene.galaxyVersion
            THEN scene'.pointsFetch = r
            ELSE /\ scene'.pointsFetch = scene.pointsFetch
                 /\ scene'.points = scene.points
                 /\ scene'.builtinPoints = scene.builtinPoints
                 /\ scene'.userPoints = scene.userPoints

C10_FetchCancellable == [][FetchAppliedOnlyIfCurrent]_vars

\* the response for an older galaxyVersion arrived after the version
\* changed, and the points are those of a newer version's response
C10_Witness ==
    /\ scene # <<>>
    /\ \E r \in 1..Len(scene.fetches) :
          /\ scene.fetches[r].settled /\ scene.fetches[r].cancelled
          /\ scene.pointsFetch > r
          /\ Len(scene.points) > 0

----------------------------------------------------------------------------
(* C9: a request to /api/sounds/hide-builtin, /api/sounds/user/all,        *)
(* /api/sounds/bulk or /api/sounds/show-builtin is under way only if the   *)
(* user pressed the Yes button of the confirmation that belongs to it, a   *)
(* confirmation is shown only once the user opened it, and pressing a      *)
(* Cancel button starts no request.                                        *)

ConfirmationOf(op) ==
    CASE op = "deleteAllBuiltin"  -> "delete-all-builtin"
      [] op = "deleteAllUser"     -> "delete-all-user"
      [] op = "deleteSelected"    -> "delete-selected"
      [] op = "restoreAllBuiltin" -> "restore"

RequestsUnderWay == {t \in Tasks : panel.tasks[t].pc = "request"}

RequestsConfirmed ==
    \A t \in RequestsUnderWay :
        /\ panel.tasks[t].by.pressed = "Yes"
        /\ panel.tasks[t].by.confirmation = ConfirmationOf(panel.tasks[t].op)

ConfirmationOpenedByUser ==
    (\/ panel'.confirmAction # "null" /\ panel'.confirmAction # panel.confirmAction
     \/ panel'.confirmRestore /\ ~panel.confirmRestore)
        => panel'.lastEvent = "open"

CancelStartsNothing ==
    panel'.lastEvent = "cancel" => panel'.tasks = panel.tasks

C9_ConfirmThenCall ==
    []RequestsConfirmed /\ [][ConfirmationOpenedByUser /\ CancelStartsNothing]_vars

----------------------------------------------------------------------------
(* C11: when the dropdown (in the earliest revision, the hovered list) has  *)
(* been closed since the effect that opened it asked for the user's        *)
(* sounds, the response or the failure of that request leaves              *)
(* uploadedFiles as it is.                                                 *)

EffectTasks == {t \in Tasks : panel.tasks[t].effect}

ListShown == panel.isUploadDropdownOpen \/ panel.uploadListHovered

\* closed now, or closed and opened again: a later effect has asked
ClosedSince(t) == ~ListShown \/ \E u \in EffectTasks : u > t

TaskSettles(t) == panel'.tasks = EndTask(panel, t).tasks

ClosedListResponseDropped ==
    \A t \in EffectTasks :
        (TaskSettles(t) /\ ClosedSince(t)) =>
            panel'.uploadedFiles = panel.uploadedFiles

C11_ListFetchCancellable == [][ClosedListResponseDropped]_vars

\* the response of an opening that was closed arrived after the dropdown
\* was opened again, and the list holds what an earlier response brought
C11_Witness ==
    /\ panel # <<>>
    /\ panel.lastEvent = "dropped"
    /\ ListShown
    /\ Len(panel.uploadedFiles) > 0
    /\ \E t \in EffectTasks : ~panel.tasks[t].cancelled

----------------------------------------------------------------------------
(* C12: the promise fetchAllPoints returns is never rejected.  When one    *)
(* source's response is not ok and nothing throws, that source's list is   *)
(* empty and the other's is what its response carried; when a fetch        *)
(* rejects or a body is not JSON, builtin, user and all are empty; all is  *)
(* always builtin followed by user.                                        *)

PointsSent(res) == IF res.kind = "points" THEN res.points ELSE <<>>

NetworkOrJsonError(res) == res.kind \in {"reject", "badjson"}

C12_FetchAllPointsNeverRejects ==
    (fetchRun # <<>> /\ fetchRun.pc = "settled") =>
        LET b == fetchRun.builtinResponse
            u == fetchRun.userResponse
        IN  /\ fetchRun.promise.status = "fulfilled"
            /\ LET got == fetchRun.promise.value
               IN  /\ got.all = got.builtin \o got.user
                   /\ (NetworkOrJsonError(b) \/ NetworkOrJsonError(u)) =>
                          got.builtin = <<>> /\ got.user = <<>> /\ got.all = <<>>
                   /\ (b.kind = "notok" /\ ~NetworkOrJsonError(u)) =>
                          got.builtin = <<>> /\ got.user = PointsSent(u)
                   /\ (u.kind = "notok" /\ ~NetworkOrJsonError(b)) =>
                          got.user = <<>> /\ got.builtin = PointsSent(b)

\* the built-in source answers with an error status and the user source
\* with two points, which are kept
C12_Witness ==
    /\ fetchRun # <<>>
    /\ fetchRun.pc = "settled"
    /\ fetchRun.builtinResponse.kind = "notok"
    /\ Len(PointsSent(fetchRun.userResponse)) = 2
    /\ fetchRun.promise.value.all = PointsSent(fetchRun.userResponse)

----------------------------------------------------------------------------
(* C13: handleFileChange sends one upload request for each selected file   *)
(* whose name ends in .wav, .mp3, .ogg, .flac, .m4a or .aac in any case,   *)
(* and for no other; when it ends, refreshGalaxy has been called once if   *)
(* an upload succeeded and not at all otherwise, and successCount plus     *)
(* failCount is the number of those files.                                 *)

SameLetter(a, b) ==
    a = b \/ {a, b} \in {{"w", "W"}, {"a", "A"}, {"v", "V"}, {"c", "C"}}

AudioSuffixes ==
    {<<".", "w", "a", "v">>, <<".", "m", "p", "3">>, <<".", "o", "g", "g">>,
     <<".", "f", "l", "a", "c">>, <<".", "m", "4", "a">>, <<".", "a", "a", "c">>}

EndsIn(name, suffix) ==
    /\ Len(name) >= Len(suffix)
    /\ \A j \in 1..Len(suffix) :
          SameLetter(name[Len(name) - Len(suffix) + j], suffix[j])

IsAudioFile(f) == \E suffix \in AudioSuffixes : EndsIn(f.name, suffix)

Batches == {t \in Tasks : panel.tasks[t].op = "handleFileChange"}

BatchEnds(t) ==
    panel'.tasks \in {EndTask(panel, t).tasks,
                      Append(EndTask(panel, t).tasks, ListTask(FALSE))}

OneRequestPerAudioFile ==
    \A t \in Batches :
        /\ panel.tasks[t].requests = SelectSeq(panel.tasks[t].files, IsAudioFile)
        /\ Len(panel.tasks[t].results) = Len(panel.tasks[t].requests)

RefreshOnceIfAnySucceeded ==
    /\ \A t \in Batches :
          BatchEnds(t) =>
              /\ panel'.galaxyVersion =
                     IF \E i \in 1..Len(panel.tasks[t].results) :
                            panel.tasks[t].results[i] = "fulfilled"
                     THEN panel.galaxyVersion + 1
                     ELSE panel.galaxyVersion
              /\ panel'.uploadCounts.successCount + panel'.uploadCounts.failCount =
                     Len(SelectSeq(panel.tasks[t].files, IsAudioFile))
    /\ (\A t \in Batches : ~BatchEnds(t)) => panel'.galaxyVersion = panel.galaxyVersion

C13_UploadsAllowedFilesOnly ==
    []OneRequestPerAudioFile /\ [][RefreshOnceIfAnySucceeded]_vars

\* of two audio files, one of them named in capitals, one upload succeeded
\* and one failed: the galaxy was refreshed once
C13_Witness ==
    /\ panel # <<>>
    /\ panel.uploadCounts = [successCount |-> 1, failCount |-> 1]
    /\ panel.galaxyVersion = 1
    /\ Batches = {}

----------------------------------------------------------------------------
(* C14: in the store, every setter gives its own field (setPointerPosition *)
(* its two fields) the value it was called with and leaves every other     *)
(* field as it was; refreshGalaxy adds 1 to galaxyVersion and changes      *)
(* nothing else; galaxyVersion starts at 0 and never decreases.            *)

FieldsOf(function) ==
    CASE function = "setSelectedId" -> <<"selectedId">>
      [] function = "setPlayingId" -> <<"playingId">>
      [] function = "setHoveredId" -> <<"hoveredId">>
      [] function = "setHoveredName" -> <<"hoveredName">>
      [] function = "setPointerPosition" -> <<"pointerX", "pointerY">>
      [] function = "setHoverTooltipMode" -> <<"hoverTooltipMode">>
      [] function = "setPlayMode" -> <<"playMode">>
      [] function = "setVolume" -> <<"volume">>
      [] function = "setHighlightedListAudioUrl" -> <<"highlightedListAudioUrl">>
      [] function = "refreshGalaxy" -> <<"galaxyVersion">>

SetterChangesOwnFieldOnly ==
    LET function == store'.last.function
        fields   == FieldsOf(function)
    IN  /\ DOMAIN store'.state = DOMAIN store.state
        /\ \A k \in DOMAIN store.state :
              k \notin Range(fields) => store'.state[k] = store.state[k]
        /\ IF function = "refreshGalaxy"
           THEN store'.state.galaxyVersion = store.state.galaxyVersion + 1
           ELSE \A i \in 1..Len(fields) : store'.state[fields[i]] = store'.last.args[i]
        /\ store'.state.galaxyVersion >= store.state.galaxyVersion

GalaxyVersionStartsAtZero ==
    (store # <<>> /\ store.last.function = "create") => store.state.galaxyVersion = 0

C14_SettersChangeOwnFieldOnly ==
    []GalaxyVersionStartsAtZero /\ [][SetterChangesOwnFieldOnly]_vars

\* setPointerPosition has set both coordinates in a state where every
\* other field had left its initial value, after two refreshGalaxy
C14_Witness ==
    /\ store # <<>>
    /\ store.revision = "useAppStore.ts:71"
    /\ store.last = [function |-> "setPointerPosition", args |-> <<(<<0>>), <<>> >>]
    /\ store.state.pointerX = <<0>> /\ store.state.pointerY = <<>>
    /\ store.state.galaxyVersion = 2
    /\ \A k \in DOMAIN store.state \ {"pointerX", "pointerY"} :
          store.state[k] # StoreState(store.revision)[k]

----------------------------------------------------------------------------
(* C20: App shows at most one tooltip: the one that follows the pointer    *)
(* exactly when hoveredName, pointerX and pointerY are not null and        *)
(* hoverTooltipMode is 'follow', the fixed one exactly when hoveredName is *)
(* not null and hoverTooltipMode is 'fixed', and none when hoveredName is  *)
(* null.                                                                   *)

C20_AtMostOneTooltip ==
    store # <<>> =>
        LET s     == store.state
            shown == AppTooltips(s)
        IN  /\ Cardinality(shown) <= 1
            /\ "sound-tooltip-follow" \in shown <=>
                  /\ s.hoveredName # "null"
                  /\ s.pointerX # <<>> /\ s.pointerY # <<>>
                  /\ s.hoverTooltipMode = "follow"
            /\ "sound-tooltip-fixed" \in shown <=>
                  (s.hoveredName # "null" /\ s.hoverTooltipMode = "fixed")
            /\ s.hoveredName = "null" => shown = {}

\* the fixed tooltip is shown for a sound whose name is the empty string,
\* the pointer at the left edge
C20_Witness ==
    /\ store # <<>>
    /\ store.state.hoveredName = ""
    /\ store.state.pointerX = <<0>> /\ store.state.pointerY = <<0>>
    /\ AppTooltips(store.state) = {"sound-tooltip-fixed"}

----------------------------------------------------------------------------
(* C15: when every upload request settles, a handleFileChange that set     *)
(* uploadStatus to 'uploading' sets it to another value in the end: in     *)
(* components/UploadPanel.tsx to 'idle' when an upload succeeded and to    *)
(* 'error' when none did or no file was allowed.  A change event without   *)
(* files leaves uploadStatus as it is.  While uploadStatus is 'uploading'  *)
(* no file chooser can be opened, so that at most one handleFileChange is  *)
(* under way.                                                              *)

Uploading == panel # <<>> /\ panel.uploadStatus = "uploading"

NotUploading == panel # <<>> /\ panel.uploadStatus # "uploading"

NoSecondBatch ==
    /\ Cardinality(Batches) <= 1
    /\ Batches # {} => (panel.uploadStatus = "uploading" /\ ~panel.fileDialog)

BatchEndsIdleOrError ==
    \A t \in Batches :
        (BatchEnds(t) /\ panel.revision = "UploadPanel.tsx") =>
            panel'.uploadStatus =
                IF \E i \in 1..Len(panel.tasks[t].results) :
                       panel.tasks[t].results[i] = "fulfilled"
                THEN "idle" ELSE "error"

NoFilesKeepsStatus ==
    (panel.fileDialog /\ ~panel'.fileDialog /\ Batches = {} /\ panel'.tasks = panel.tasks)
        => panel'.uploadStatus = panel.uploadStatus

C15_UploadingEnds ==
    /\ Uploading ~> NotUploading
    /\ []NoSecondBatch
    /\ [][BatchEndsIdleOrError /\ NoFilesKeepsStatus]_vars

\* a run whose files were all refused has ended in 'error'
C15_Witness ==
    /\ panel # <<>>
    /\ panel.revision = "UploadPanel.tsx"
    /\ panel.uploadStatus = "error"
    /\ panel.uploadCounts = [successCount |-> 0, failCount |-> 0]
    /\ panel.uploadPanelMessage = "No audio files found"

----------------------------------------------------------------------------
(* C16: in components/UploadPanel.tsx, when the request of                 *)
(* deleteAllBuiltin, deleteAllUser, deleteSelected or restoreAllBuiltin    *)
(* gets a response that is not ok or throws, deleteError becomes a         *)
(* message, refreshGalaxy is not called, uploadedFiles, selectedIds,       *)
(* selectionMode, panelMessage and restoreMessage stay as they are, and    *)
(* for the three delete functions confirmAction stays as it is.  The same  *)
(* when the request for the ids fails.                                     *)

DeleteFunctions == {"deleteAllBuiltin", "deleteAllUser", "deleteSelected"}

CitedRevision == panel.revision = "UploadPanel.tsx"

\* the function whose request was under way as task t has run to its end
RequestEnds(t) == panel.tasks[t].pc = "request" /\ BatchEnds(t)

\* the request of task t, or its request for the ids, has failed
RequestFails(t) ==
    \/ RequestEnds(t) /\ panel'.lastEvent = "requestFailed"
    \/ panel.tasks[t].pc = "ids" /\ BatchEnds(t) /\ panel'.lastEvent = "idsFailed"

FailedRequestKeepsState ==
    \A t \in Tasks :
        RequestFails(t) =>
            /\ panel'.deleteError # "null"
            /\ panel'.galaxyVersion = panel.galaxyVersion
            /\ panel'.uploadedFiles = panel.uploadedFiles
            /\ panel'.selectedIds = panel.selectedIds
            /\ panel'.selectionMode = panel.selectionMode
            /\ panel'.panelMessage = panel.panelMessage
            /\ panel'.restoreMessage = panel.restoreMessage
            /\ panel.tasks[t].op \in DeleteFunctions =>
                  panel'.confirmAction = panel.confirmAction

C16_FailedRequestKeepsState == [][FailedRequestKeepsState]_vars

\* the request of deleteSelected failed: its confirmation is still open with
\* the error, the selection is as it was
C16_Witness ==
    /\ panel # <<>>
    /\ CitedRevision
    /\ panel.lastEvent = "requestFailed"
    /\ panel.confirmAction = "delete-selected"
    /\ panel.deleteError = "Failed to delete user sounds"
    /\ panel.selectionMode
    /\ Cardinality(panel.selectedIds) = 2

----------------------------------------------------------------------------
(* C17: in components/UploadPanel.tsx, when the request of a delete        *)
(* function succeeds, confirmAction becomes null, refreshGalaxy is called  *)
(* once and panelMessage is set; deleteAllUser also empties uploadedFiles, *)
(* and deleteSelected leaves selection mode, empties selectedIds and its   *)
(* message tells the number of ids it sent.                                *)

SucceededDeleteResets ==
    \A t \in Tasks :
        (/\ CitedRevision
         /\ RequestEnds(t)
         /\ panel'.lastEvent = "requestOk"
         /\ panel.tasks[t].op \in DeleteFunctions) =>
            /\ panel'.confirmAction = "null"
            /\ panel'.galaxyVersion = panel.galaxyVersion + 1
            /\ panel'.panelMessage # "null"
            /\ panel.tasks[t].op = "deleteAllUser" => panel'.uploadedFiles = <<>>
            /\ panel.tasks[t].op = "deleteSelected" =>
                  /\ ~panel'.selectionMode
                  /\ panel'.selectedIds = {}
                  /\ panel'.panelMessage =
                         "Deleted " \o ToString(panel.tasks[t].count) \o " sound(s)"

C17_SucceededDeleteResets == [][SucceededDeleteResets]_vars

\* deleteSelected succeeded for the one id it sent
C17_Witness ==
    /\ panel # <<>>
    /\ CitedRevision
    /\ panel.lastEvent = "requestOk"
    /\ panel.panelMessage = "Deleted 1 sound(s)"
    /\ panel.galaxyVersion = 1
    /\ ~panel.selectionMode /\ panel.selectedIds = {}
    /\ panel.confirmAction = "null"

----------------------------------------------------------------------------
(* C18: in components/UploadPanel.tsx, when the list of ids arrives empty, *)
(* no request to hide or restore is sent and the galaxy is not refreshed:  *)
(* deleteAllBuiltin then only closes the confirmation and                  *)
(* restoreAllBuiltin only sets restoreMessage to 'No hidden built-in       *)
(* sounds'; deleteSelected called with an empty selection changes nothing; *)
(* restoreAllBuiltin has cleared confirmRestore when it asks for the ids.  *)

IdsArriveEmpty(t) ==
    /\ panel.tasks[t].pc = "ids"
    /\ panel'.lastEvent = "idsEmpty"
    /\ \/ TaskSettles(t)
       \/ Len(panel'.tasks) = Len(panel.tasks) /\ panel'.tasks[t] # panel.tasks[t]

EmptyIdsSendNothing ==
    \A t \in Tasks :
        IdsArriveEmpty(t) =>
            LET done == [EndTask(panel, t) EXCEPT !.lastEvent = "idsEmpty"]
            IN  IF panel.tasks[t].op = "deleteAllBuiltin"
                THEN panel' = [done EXCEPT !.confirmAction = "null"]
                ELSE panel' = [done EXCEPT !.restoreMessage = "No hidden built-in sounds"]

RestoreClearsConfirmRestore ==
    (/\ Len(panel'.tasks) = Len(panel.tasks) + 1
     /\ panel'.tasks[Len(panel'.tasks)].op = "restoreAllBuiltin") =>
        ~panel'.confirmRestore

DeleteSelectedOfNothing ==
    (panel # <<>> /\ panel.selectedIds = {}) =>
        \A pressed \in {"Yes", "Delete"} :
            deleteSelected(panel, [pressed |-> pressed,
                                   confirmation |-> panel.confirmAction]) = panel

C18_EmptyIdsSendNothing ==
    []DeleteSelectedOfNothing /\ [][EmptyIdsSendNothing /\ RestoreClearsConfirmRestore]_vars

\* restoreAllBuiltin found nothing hidden while the confirmation of another
\* restore was open: only the message was set
C18_Witness ==
    /\ panel # <<>>
    /\ CitedRevision
    /\ panel.lastEvent = "idsEmpty"
    /\ panel.restoreMessage = "No hidden built-in sounds"
    /\ panel.confirmRestore
    /\ panel.galaxyVersion = 0

----------------------------------------------------------------------------
(* C19: when the pointer leaves the scene, hoveredId, hoveredName,         *)
(* pointerX and pointerY become null, and they are null after every frame  *)
(* in which the pointer is not over the scene, so for as long as it has    *)
(* not entered again; hoveredName is null whenever hoveredId is.           *)

HoverIsNull ==
    /\ scene.hoveredId = "null"
    /\ scene.hoveredName = "null"
    /\ scene.pointerX = <<>>
    /\ scene.pointerY = <<>>

PointerAwayHoverNull == (scene # <<>> /\ ~scene.isPointerOverScene) => HoverIsNull

NoNameWithoutId ==
    (scene # <<>> /\ scene.hoveredId = "null") => scene.hoveredName = "null"

LeaveAndFrameClearHover ==
    /\ scene'.lastEvent = "pointerLeave" =>
          ~scene'.isPointerOverScene /\ HoverIsNull'
    /\ (scene'.lastEvent = "frame" /\ ~scene.isPointerOverScene) =>
          ~scene'.isPointerOverScene /\ HoverIsNull'

C19_PointerLeaveClearsHover ==
    []PointerAwayHoverNull /\ []NoNameWithoutId /\ [][LeaveAndFrameClearHover]_vars

\* the pointer stayed on a point until its sound was asked for, then left,
\* and a frame has run since
C19_Witness ==
    /\ scene # <<>>
    /\ scene.lastEvent = "frame"
    /\ ~scene.isPointerOverScene
    /\ scene.mouse = MousePlace(0)
    /\ \E c \in Calls : tone.calls[c].owner = "hover"
    /\ HoverIsNull

----------------------------------------------------------------------------
(* C21: toggleSelected(id) adds id to selectedIds when it is absent and    *)
(* removes it when it is present, and leaves every other member and the    *)
(* rest of the panel as they are; twice with the same id gives the         *)
(* original set back, and toggles of different ids commute.                *)
(* enterSelectionMode gives selectionMode = true and an empty selectedIds  *)
(* whatever was selected before.                                           *)

\* the ids toggleSelected is applied to: those of the list and one more
ToggleIds == FileIds \cup {"2"}

ToggleFlipsOneId ==
    \A id \in ToggleIds :
        LET next == toggleSelected(panel, id)
        IN  /\ id \in next.selectedIds <=> id \notin panel.selectedIds
            /\ \A other \in ToggleIds \ {id} :
                   other \in next.selectedIds <=> other \in panel.selectedIds
            /\ next.selectedIds \subseteq panel.selectedIds \cup {id}
            /\ next = [panel EXCEPT !.selectedIds = next.selectedIds]

ToggleTwiceRestores ==
    \A id \in ToggleIds : toggleSelected(toggleSelected(panel, id), id) = panel

TogglesCommute ==
    \A a, b \in ToggleIds :
        a # b => toggleSelected(toggleSelected(panel, a), b)
                     = toggleSelected(toggleSelected(panel, b), a)

EnterSelectionModeResets ==
    LET next == enterSelectionMode(panel)
    IN  /\ next.selectionMode
        /\ next.selectedIds = {}

SelectionAlgebra ==
    panel # <<>> =>
        /\ ToggleFlipsOneId
        /\ ToggleTwiceRestores
        /\ TogglesCommute
        /\ EnterSelectionModeResets

\* the checkbox and the "Select to delete" button do that to the panel
SelectionSteps ==
    /\ panel'.lastEvent = "toggle" =>
          \E id \in FileIds :
              /\ panel'.selectedIds =
                     IF id \in panel.selectedIds
                     THEN panel.selectedIds \ {id} ELSE panel.selectedIds \cup {id}
              /\ panel'.selectionMode = panel.selectionMode
    /\ panel'.lastEvent = "select" =>
          panel'.selectionMode /\ panel'.selectedIds = {}

C21_SelectionAlgebra == []SelectionAlgebra /\ [][SelectionSteps]_vars

\* a second checkbox was ticked: both ids are selected
C21_Witness ==
    /\ panel # <<>>
    /\ panel.lastEvent = "toggle"
    /\ panel.selectionMode
    /\ panel.selectedIds = {"0", "1"}

====
